---- MODULE Spec2Model ----
(***************************************************************************)
(* Theatre ticketing backend (backend/main.py, schemas.py, models.py):     *)
(* the settings table, the ticket table, the audit log, and the handlers   *)
(* register_ticket, update_ticket, delete_ticket, checkin_ticket and       *)
(* update_settings, modelled as a state machine.                           *)
(*                                                                         *)
(* Python values are tagged records [t |-> <type>, ...]; a raised          *)
(* exception is a result record whose exc field names the exception class. *)
(* Setting values are TLA+ strings, read character by character, so that   *)
(* int() and json.loads() are computed from the text they are given.       *)
(***************************************************************************)
EXTENDS Integers, Sequences, FiniteSets, TLC

\* ------------------------------------------------------------------------
\* Bounds of the model

\* tickets ever registered in one behaviour (token_urlsafe ids 1..MaxTickets)
MaxTickets == 2
\* largest reading of the wall clock (datetime.utcnow)
MaxClock == 1
\* audit rows written in one behaviour
MaxAudit == 2
\* concurrent requests in the interleaved specifications
NumProcs == 2

\* ------------------------------------------------------------------------
\* Program constants

\* schemas.py: quantity_must_be_valid, v < 1 or v > 10
MinQuantity == 1
MaxQuantity == 10

\* main.py: SETTING_DEFAULTS
SETTING_DEFAULTS ==
  [ event_name        |-> "Immersive Theatre Experience",
    event_subtitle    |-> "Reserve Your Place",
    event_description |-> "Complete the form, pay, and upload your receipt to confirm your booking.",
    show_dates        |-> "2026-04-19,2026-04-26",
    show_times        |-> "4.00pm-6.30pm",
    early_bird_price  |-> "25",
    standard_price    |-> "30",
    early_bird_limit  |-> "30",
    standard_limit    |-> "",
    total_capacity    |-> "100",
    ticket_types_json |-> "",
    show_dates_json   |-> "",
    duitnow_name      |-> "YOUR NAME / ORGANISATION",
    duitnow_id        |-> "01X-XXX XXXX",
    duitnow_qr        |-> "",
    contact_name      |-> "",
    contact_phone     |-> "" ]

\* ------------------------------------------------------------------------
\* Python text primitives

\* s[i-1] of a Python str (1-based here); "" past the end
Ch(s, i) == IF i >= 1 /\ i <= Len(s) THEN SubSeq(s, i, i) ELSE ""

DigitChars == "0123456789"

IsDigit(c) == \E k \in 1..10 : SubSeq(DigitChars, k, k) = c

DigitVal(c) == CHOOSE k \in 0..9 : SubSeq(DigitChars, k + 1, k + 1) = c

IsSpace(c) == c = " "

RECURSIVE SkipWs(_, _)
\* first index >= i of s that holds no white space
SkipWs(s, i) == IF i <= Len(s) /\ IsSpace(Ch(s, i)) THEN SkipWs(s, i + 1) ELSE i

RECURSIVE DigitsEnd(_, _)
\* first index >= i of s that holds no digit
DigitsEnd(s, i) == IF i <= Len(s) /\ IsDigit(Ch(s, i)) THEN DigitsEnd(s, i + 1) ELSE i

RECURSIVE DigitsValue(_, _, _, _)
\* the number written by the digits s[i..j-1], after the digits already read (acc)
DigitsValue(s, i, j, acc) ==
  IF i >= j THEN acc ELSE DigitsValue(s, i + 1, j, 10 * acc + DigitVal(Ch(s, i)))

RECURSIVE LastNonSpace(_, _)
LastNonSpace(s, j) == IF j >= 1 /\ IsSpace(Ch(s, j)) THEN LastNonSpace(s, j - 1) ELSE j

\* str.strip()
Between(s, a, b) == IF a > b THEN "" ELSE SubSeq(s, a, b)

PyStrip(s) == Between(s, SkipWs(s, 1), LastNonSpace(s, Len(s)))

\* results of a Python expression: a value, or a raised exception
Ok(v) == [exc |-> "none", val |-> v]
Raise(e) == [exc |-> e]

\* the signed number written by the stripped text t whose digits start at first
\* and end before last; ValueError unless digits fill t from first to its end
SignedDigits(t, first, last) ==
  IF first <= Len(t) /\ last = Len(t) + 1
  THEN Ok((IF Ch(t, 1) = "-" THEN -1 ELSE 1) * DigitsValue(t, first, last, 0))
  ELSE Raise("ValueError")

IntOfStripped(t, first) == SignedDigits(t, first, DigitsEnd(t, first))

IntOfText(t) == IntOfStripped(t, IF Ch(t, 1) = "-" \/ Ch(t, 1) = "+" THEN 2 ELSE 1)

\* int(s) for a str s: optional white space, optional sign, digits; else ValueError
PyIntOfStr(s) == IntOfText(PyStrip(s))

\* ------------------------------------------------------------------------
\* json.loads: null, true, false, integers, decimals, strings, arrays, objects.
\* (Escapes inside strings and exponents are not read: the setting values of
\* this model hold none.)

JOk(v, p) == [exc |-> "none", val |-> v, pos |-> p]
JErr == [exc |-> "ValueError"]

StartsWith(s, i, w) == i + Len(w) - 1 <= Len(s) /\ SubSeq(s, i, i + Len(w) - 1) = w

RECURSIVE QuoteAt(_, _)
\* index of the first double quote of s at or after i; 0 when there is none
QuoteAt(s, i) ==
  IF i > Len(s) THEN 0 ELSE IF Ch(s, i) = "\"" THEN i ELSE QuoteAt(s, i + 1)

RECURSIVE AllZero(_, _, _)
AllZero(s, i, j) == i >= j \/ (Ch(s, i) = "0" /\ AllZero(s, i + 1, j))

\* the number whose integer part is s[a..b-1] and whose fraction ends before fe
NumberValue(s, sgn, a, b, fe) ==
  IF b = a THEN JErr
  ELSE IF fe > b + 1
  THEN JOk([t |-> "float", whole |-> sgn * DigitsValue(s, a, b, 0),
            zero |-> DigitsValue(s, a, b, 0) = 0 /\ AllZero(s, b + 1, fe)], fe)
  ELSE JOk([t |-> "int", v |-> sgn * DigitsValue(s, a, b, 0)], b)

NumberFrom(s, sgn, a, b) ==
  NumberValue(s, sgn, a, b, IF Ch(s, b) = "." THEN DigitsEnd(s, b + 1) ELSE b)

UnsignedNumber(s, sgn, a) ==
  NumberFrom(s, sgn, a, IF Ch(s, a) = "0" THEN a + 1 ELSE DigitsEnd(s, a))

\* a JSON number at s[i]: -?(0|[1-9][0-9]*)(\.[0-9]+)?
ParseNumber(s, i) ==
  IF Ch(s, i) = "-" THEN UnsignedNumber(s, -1, i + 1) ELSE UnsignedNumber(s, 1, i)

\* a JSON string whose opening quote is s[i] and whose closing quote is s[e]
StringValue(s, i, e) ==
  IF e = 0 THEN JErr ELSE JOk([t |-> "str", v |-> SubSeq(s, i + 1, e - 1)], e + 1)

RECURSIVE ValueAt(_, _)
RECURSIVE ElemsNext(_, _, _, _)
RECURSIVE MembersNext(_, _, _, _, _)

\* after element r of an array, j the first index after it that holds no white space
ElemsAfter(s, r, acc) ==
  IF r.exc # "none" THEN JErr ELSE ElemsNext(s, r, acc, SkipWs(s, r.pos))

\* after the member key: r of an object, likewise
MembersAfter(s, key, r, acc) ==
  IF r.exc # "none" THEN JErr ELSE MembersNext(s, key, r, acc, SkipWs(s, r.pos))

\* one JSON value of s, starting at or after i0
ParseValue(s, i0) == ValueAt(s, SkipWs(s, i0))

\* the elements of an array from s[i] on, after the elements already read (acc)
ParseElems(s, i, acc) == ElemsAfter(s, ParseValue(s, i), acc)

\* the value of the member whose key ends at s[e]: a colon, then a value
MemberValue(s, colon) == IF Ch(s, colon) = ":" THEN ParseValue(s, colon + 1) ELSE JErr

\* the members of an object from s[a] on (a holds no white space), after the
\* members already read (acc)
MembersAt(s, a, e, acc) ==
  IF Ch(s, a) # "\"" \/ e = 0 THEN JErr
  ELSE MembersAfter(s, SubSeq(s, a + 1, e - 1), MemberValue(s, SkipWs(s, e + 1)), acc)

ParseMembers(s, i, acc) == MembersAt(s, i, QuoteAt(s, i + 1), acc)

\* the one JSON value that starts at s[i]
ValueAt(s, i) ==
  CASE StartsWith(s, i, "null") -> JOk([t |-> "null"], i + 4)
    [] StartsWith(s, i, "true") -> JOk([t |-> "bool", v |-> TRUE], i + 4)
    [] StartsWith(s, i, "false") -> JOk([t |-> "bool", v |-> FALSE], i + 5)
    [] Ch(s, i) = "\"" -> StringValue(s, i, QuoteAt(s, i + 1))
    [] Ch(s, i) = "[" ->
         IF Ch(s, SkipWs(s, i + 1)) = "]"
         THEN JOk([t |-> "list", v |-> <<>>], SkipWs(s, i + 1) + 1)
         ELSE ParseElems(s, i + 1, <<>>)
    [] Ch(s, i) = "{" ->
         IF Ch(s, SkipWs(s, i + 1)) = "}"
         THEN JOk([t |-> "dict", v |-> <<>>], SkipWs(s, i + 1) + 1)
         ELSE ParseMembers(s, SkipWs(s, i + 1), <<>>)
    [] Ch(s, i) = "-" \/ IsDigit(Ch(s, i)) -> ParseNumber(s, i)
    [] OTHER -> JErr

\* a comma and more elements, or the closing bracket, at s[j]
ElemsNext(s, r, acc, j) ==
  CASE Ch(s, j) = "," -> ParseElems(s, j + 1, Append(acc, r.val))
    [] Ch(s, j) = "]" -> JOk([t |-> "list", v |-> Append(acc, r.val)], j + 1)
    [] OTHER -> JErr

\* a comma and more members, or the closing brace, at s[j]
MembersNext(s, key, r, acc, j) ==
  CASE Ch(s, j) = "," ->
         ParseMembers(s, SkipWs(s, j + 1), Append(acc, [k |-> key, v |-> r.val]))
    [] Ch(s, j) = "}" ->
         JOk([t |-> "dict", v |-> Append(acc, [k |-> key, v |-> r.val])], j + 1)
    [] OTHER -> JErr

\* the result of json.loads(s) once its first value r is read: nothing may follow
LoadsResult(s, r) ==
  IF r.exc # "none" THEN Raise("ValueError")
  ELSE IF SkipWs(s, r.pos) # Len(s) + 1 THEN Raise("ValueError")
  ELSE Ok(r.val)

\* json.loads(s): the value, or ValueError (JSONDecodeError)
JsonLoads(s) == LoadsResult(s, ParseValue(s, 1))

\* ------------------------------------------------------------------------
\* Python operations on parsed values

PyNone == [t |-> "null"]

\* bool(v)
Truthy(v) ==
  CASE v.t = "null" -> FALSE
    [] v.t = "bool" -> v.v
    [] v.t = "int" -> v.v # 0
    [] v.t = "float" -> ~v.zero
    [] v.t = "str" -> v.v # ""
    [] v.t = "list" -> Len(v.v) > 0
    [] v.t = "dict" -> Len(v.v) > 0

\* int(v)
PyInt(v) ==
  CASE v.t = "int" -> Ok(v.v)
    [] v.t = "bool" -> Ok(IF v.v THEN 1 ELSE 0)
    [] v.t = "float" -> Ok(v.whole)
    [] v.t = "str" -> PyIntOfStr(v.v)
    [] OTHER -> Raise("TypeError")

\* the last member of dict d with key k (a later duplicate key replaces an earlier one)
RECURSIVE DictFind(_, _, _)
DictFind(d, k, n) ==
  IF n = 0 THEN 0 ELSE IF d.v[n].k = k THEN n ELSE DictFind(d, k, n - 1)

\* v[k] for a str key k
MemberAt(v, n) == IF n = 0 THEN Raise("KeyError") ELSE Ok(v.v[n].v)

Subscript(v, k) ==
  IF v.t = "dict" THEN MemberAt(v, DictFind(v, k, Len(v.v))) ELSE Raise("TypeError")

\* v.get(k) of a dict v
MemberOrNone(v, n) == IF n = 0 THEN PyNone ELSE v.v[n].v

DictGet(v, k) == MemberOrNone(v, DictFind(v, k, Len(v.v)))

\* the keys of dict d in insertion order, each once
RECURSIVE DictKeys(_, _, _)
DictKeys(d, n, acc) ==
  IF n > Len(d.v) THEN acc
  ELSE DictKeys(d, n + 1,
         IF \E m \in 1..Len(acc) : acc[m].v = d.v[n].k THEN acc
         ELSE Append(acc, [t |-> "str", v |-> d.v[n].k]))

\* iter(v): the items a for loop over v visits
PyIter(v) ==
  CASE v.t = "list" -> Ok(v.v)
    [] v.t = "dict" -> Ok(DictKeys(v, 1, <<>>))
    [] v.t = "str" -> Ok([n \in 1..Len(v.v) |-> [t |-> "str", v |-> Ch(v.v, n)]])
    [] OTHER -> Raise("TypeError")

\* ------------------------------------------------------------------------
\* State

VARIABLES
  tickets,   \* table tickets: ticket_id -> row
  nextId,    \* number of ticket ids generated so far (each id is fresh)
  settings,  \* table settings: key -> value, the stored overrides only
  audit,     \* table audit_logs, in insertion order
  emails,    \* the calls of _send_ticket_email: ticket and outcome
  clock,     \* last reading of the wall clock
  resp,      \* response of the last finished request
  req,       \* body of the request resp answers, for a registration
  procs,     \* requests in flight (interleaved specifications only)
  env        \* what the program depends on: the mail service, the audit table

vars == <<tickets, nextId, settings, audit, emails, clock, resp, req, procs, env>>

\* Optional[x]: <<>> is None, <<x>> is x
None == <<>>
Some(x) == <<x>>

Max(a, b) == IF a >= b THEN a ELSE b

\* get_all_settings: the defaults overridden by the stored rows
GetAllSettings(rows) ==
  [k \in DOMAIN SETTING_DEFAULTS \cup DOMAIN rows |->
     IF k \in DOMAIN rows THEN rows[k] ELSE SETTING_DEFAULTS[k]]

\* ------------------------------------------------------------------------
\* Inventory: _type_sold, _total_sold, _early_bird_sold

\* SumQuantity counting the rows
SumQuantityRows(tk, ids) == Cardinality(ids)

RECURSIVE SumQuantity(_, _)
SumQuantity(tk, ids) ==
  IF ids = {} THEN 0
  ELSE LET i == CHOOSE x \in ids : TRUE
       IN  tk[i].quantity + SumQuantity(tk, ids \ {i})

\* SELECT sum(quantity) over the rows ids: NULL when no row matches
SqlSum(tk, ids) == IF ids = {} THEN None ELSE Some(SumQuantity(tk, ids))

\* result or 0
OrZero(r) == IF r = None \/ r[1] = 0 THEN 0 ELSE r[1]

TypeSold(tk, ticket_type, show_date) ==
  OrZero(SqlSum(tk, {i \in DOMAIN tk : tk[i].show_date = show_date
                                       /\ tk[i].ticket_type = ticket_type}))

TotalSold(tk, show_date) ==
  OrZero(SqlSum(tk, {i \in DOMAIN tk : tk[i].show_date = show_date}))

EarlyBirdSold(tk, show_date) == TypeSold(tk, "Early Bird", show_date)

\* ------------------------------------------------------------------------
\* register_ticket: the capacity decision (main.py 491-552)

Accept == [status |-> 201, scope |-> "none", remaining |-> 0, exc |-> "none"]
\* HTTPException(409): scope "total" is the venue-wide message, "type" the per-type one
Reject(scope, remaining) ==
  [status |-> 409, scope |-> scope, remaining |-> remaining, exc |-> "none"]
\* an exception that leaves the handler: the request ends in a server error
ServerError(e) == [status |-> 500, scope |-> "none", remaining |-> 0, exc |-> e]

\* next((t for t in type_defs if t["name"] == ticket_type), None), from item n on
RECURSIVE FindTdef(_, _, _)
FindTdef(items, n, ticket_type) ==
  IF n > Len(items) THEN Ok(PyNone)
  ELSE LET name == Subscript(items[n], "name")
       IN  IF name.exc # "none" THEN Raise(name.exc)
           ELSE IF name.val.t = "str" /\ name.val.v = ticket_type THEN Ok(items[n])
           ELSE FindTdef(items, n + 1, ticket_type)

\* LimitCheck with the comparison the wrong way round
LimitCheckInverted(scope, limit, sold, quantity) ==
  IF quantity < Max(0, limit - sold) THEN Reject(scope, Max(0, limit - sold))
  ELSE Accept

\* LimitCheck that compares the request with the limit alone, whatever is sold
LimitCheckPerRequest(scope, limit, sold, quantity) ==
  IF quantity > Max(0, limit) THEN Reject(scope, Max(0, limit))
  ELSE Accept

\* if ticket.quantity > remaining: raise HTTPException(409), for a limit of the
\* given scope of which sold are taken
LimitCheck(scope, limit, sold, quantity) ==
  IF quantity > Max(0, limit - sold) THEN Reject(scope, Max(0, limit - sold))
  ELSE Accept

\* main.py 514-523, t_limit the result of int(tdef["limit"])
WithTypeLimit(t_limit, tk, ticket_type, show_date, quantity) ==
  IF t_limit.exc # "none" THEN ServerError(t_limit.exc)
  ELSE LimitCheck("type", t_limit.val, TypeSold(tk, ticket_type, show_date), quantity)

\* main.py 513-523, tdef the result of the search of line 512
WithTdef(tdef, tk, ticket_type, show_date, quantity) ==
  IF tdef.exc # "none" THEN ServerError(tdef.exc)
  ELSE IF Truthy(tdef.val) /\ Truthy(DictGet(tdef.val, "limit"))
  THEN WithTypeLimit(PyInt(Subscript(tdef.val, "limit").val),
                     tk, ticket_type, show_date, quantity)
  ELSE Accept

\* the generator of line 512 over type_defs, the result of json.loads
FindInTypeDefs(items, ticket_type) ==
  IF items.exc # "none" THEN Raise(items.exc) ELSE FindTdef(items.val, 1, ticket_type)

IterTypeDefs(type_defs) ==
  IF type_defs.exc # "none" THEN Raise(type_defs.exc) ELSE PyIter(type_defs.val)

\* the body of the try block (main.py 511-523): Accept, Reject, or the exception raised
StructuredTry(types_json, tk, ticket_type, show_date, quantity) ==
  WithTdef(FindInTypeDefs(IterTypeDefs(JsonLoads(types_json)), ticket_type),
           tk, ticket_type, show_date, quantity)

\* except (ValueError, KeyError): pass
CaughtByRegister == {"ValueError", "KeyError"}

Handled(r) == IF r.exc \in CaughtByRegister THEN Accept ELSE r

\* dynamic ticket types (main.py 508-525)
StructuredCheck(types_json, tk, ticket_type, show_date, quantity) ==
  Handled(StructuredTry(types_json, tk, ticket_type, show_date, quantity))

\* main.py 543-552, std_limit the result of int(std_limit_str)
WithStandardLimit(std_limit, tk, show_date, quantity) ==
  IF std_limit.exc # "none" THEN ServerError(std_limit.exc)
  ELSE LimitCheck("type", std_limit.val, TypeSold(tk, "Standard", show_date), quantity)

\* StandardCheck applied whatever the requested type
StandardCheckAnyType(cfg, tk, ticket_type, show_date, quantity) ==
  IF cfg.standard_limit # ""
  THEN WithStandardLimit(PyIntOfStr(cfg.standard_limit), tk, show_date, quantity)
  ELSE Accept

\* the Standard limit, if set (main.py 541-552)
StandardCheck(cfg, tk, ticket_type, show_date, quantity) ==
  IF cfg.standard_limit # "" /\ ticket_type = "Standard"
  THEN WithStandardLimit(PyIntOfStr(cfg.standard_limit), tk, show_date, quantity)
  ELSE Accept

\* main.py 530-539, eb_limit the result of int(... or "30")
WithEarlyBirdLimit(eb_limit, tk, show_date, quantity) ==
  IF eb_limit.exc # "none" THEN ServerError(eb_limit.exc)
  ELSE LimitCheck("type", eb_limit.val, EarlyBirdSold(tk, show_date), quantity)

\* the Early Bird limit (main.py 528-539)
EarlyBirdCheck(cfg, tk, ticket_type, show_date, quantity) ==
  IF ticket_type = "Early Bird"
  THEN WithEarlyBirdLimit(
         PyIntOfStr(IF cfg.early_bird_limit # "" THEN cfg.early_bird_limit ELSE "30"),
         tk, show_date, quantity)
  ELSE Accept

\* a then b: b decides when a raised nothing
Then(a, b) == IF a.status # 201 THEN a ELSE b

\* legacy mode (main.py 527-552)
LegacyCheck(cfg, tk, ticket_type, show_date, quantity) ==
  Then(EarlyBirdCheck(cfg, tk, ticket_type, show_date, quantity),
       StandardCheck(cfg, tk, ticket_type, show_date, quantity))

\* per-type limits (main.py 506-552)
TypeCheck(cfg, tk, ticket_type, show_date, quantity) ==
  IF cfg.ticket_types_json # ""
  THEN StructuredCheck(cfg.ticket_types_json, tk, ticket_type, show_date, quantity)
  ELSE LegacyCheck(cfg, tk, ticket_type, show_date, quantity)

\* main.py 495-504, total_capacity the result of int(...) of line 494
WithTotalCapacity(total_capacity, tk, show_date, quantity) ==
  IF total_capacity.exc # "none" THEN ServerError(total_capacity.exc)
  ELSE LimitCheck("total", total_capacity.val, TotalSold(tk, show_date), quantity)

\* total venue capacity first (main.py 493-504)
VenueCheck(cfg, tk, show_date, quantity) ==
  WithTotalCapacity(PyIntOfStr(cfg.total_capacity), tk, show_date, quantity)

\* RegisterDecision with the per-type check placed first
RegisterDecisionTypeFirst(cfg, tk, ticket_type, show_date, quantity) ==
  Then(TypeCheck(cfg, tk, ticket_type, show_date, quantity),
       VenueCheck(cfg, tk, show_date, quantity))

\* the decision of register_ticket on the settings cfg and the ticket table tk
RegisterDecision(cfg, tk, ticket_type, show_date, quantity) ==
  Then(VenueCheck(cfg, tk, show_date, quantity),
       TypeCheck(cfg, tk, ticket_type, show_date, quantity))

\* ------------------------------------------------------------------------
\* Requests and responses

\* pydantic TicketCreate / TicketUpdate: a str field must not be blank
Blank(v) == PyStrip(v) = ""

\* schemas.py quantity_must_be_valid
QuantityValid(v) == ~(v < MinQuantity \/ v > MaxQuantity)

\* a response: status, and for a capacity rejection its scope and remaining count;
\* id is the ticket the response is about (0: none), at a check-in time it carries
Response(op, status, scope, remaining, id, at) ==
  [op |-> op, status |-> status, scope |-> scope, remaining |-> remaining,
   id |-> id, at |-> at]

Plain(op, status, id) == Response(op, status, "none", 0, id, None)

NoResponse == Plain("none", 0, 0)

\* models.AuditLog(role, action, detail); detail names the ticket (0: none) and
\* carries the text fragments the caller joined
AuditEntry(role, action, id, changes) ==
  [role |-> role, action |-> action, id |-> id, changes |-> changes]

\* the mail service is "unconfigured" (BREVO_API_KEY or BREVO_FROM_EMAIL unset),
\* "up" or "down"; audit_ok: an INSERT into audit_logs succeeds
Healthy == [notifier |-> "up", audit_ok |-> TRUE]

\* _send_ticket_email: skipped when not configured; a failed send is caught and
\* logged; nothing is raised
SendTicketEmail(id) ==
  [id |-> id,
   outcome |-> IF env.notifier = "unconfigured" THEN "skipped"
               ELSE IF env.notifier = "up" THEN "sent" ELSE "failed"]

\* LogAction keeping one row only, the latest
LogActionLatestOnly(log, role, action, id, changes) ==
  IF env.audit_ok THEN <<AuditEntry(role, action, id, changes)>> ELSE log

\* _log_action: one more row; a failed write is caught and logged
LogAction(log, role, action, id, changes) ==
  IF env.audit_ok THEN Append(log, AuditEntry(role, action, id, changes)) ELSE log

\* the response of a handler that reads through its Session after _log_action,
\* r when all went well: a failed commit is caught without a rollback, which
\* leaves the Session's transaction inactive and its objects expired, so the
\* next read raises
AfterLog(r) == IF env.audit_ok THEN r ELSE Plain(r.op, 500, r.id)

\* models.Ticket(...) as register_ticket builds it (main.py 555-566)
NewTicket(ticket_type, show_date, quantity, receipt_data) ==
  [ticket_type    |-> ticket_type,
   show_date      |-> show_date,
   quantity       |-> quantity,
   receipt_data   |-> receipt_data,
   payment_status |-> IF receipt_data # None /\ receipt_data[1] # ""
                      THEN "receipt_uploaded" ELSE "pending",
   checked_in     |-> FALSE,
   checked_in_at  |-> None,
   created_at     |-> clock]

\* tk with row id added or replaced
Put(tk, id, row) == [i \in DOMAIN tk \cup {id} |-> IF i = id THEN row ELSE tk[i]]

\* Remove that takes every row of the show date of row id with it
RemoveSameDate(tk, id) ==
  [i \in {j \in DOMAIN tk : tk[j].show_date # tk[id].show_date} |-> tk[i]]

\* tk without row id
Remove(tk, id) == [i \in DOMAIN tk \ {id} |-> tk[i]]

\* ------------------------------------------------------------------------
\* POST /api/register, the whole handler in one step

\* RegisterEnd with the row committed before the per-type limit is checked
RegisterEndWriteFirst(dec, ticket_type, show_date, quantity, receipt_data) ==
  IF dec.status = 201 \/ dec.scope = "type"
  THEN /\ nextId < MaxTickets
       /\ nextId' = nextId + 1
       /\ tickets' = Put(tickets, nextId + 1,
                         NewTicket(ticket_type, show_date, quantity, receipt_data))
       /\ emails' = IF dec.status = 201 THEN emails \cup {SendTicketEmail(nextId + 1)}
                                         ELSE emails
       /\ resp' = Response("register", dec.status, dec.scope, dec.remaining,
                           IF dec.status = 201 THEN nextId + 1 ELSE 0, None)
  ELSE /\ resp' = Response("register", dec.status, dec.scope, dec.remaining, 0, None)
       /\ UNCHANGED <<tickets, nextId, emails>>

\* RegisterEnd with the email sent inside the transaction: a failed send undoes
\* the row and fails the request
RegisterEndMailInside(dec, ticket_type, show_date, quantity, receipt_data) ==
  IF dec.status = 201 /\ env.notifier # "down"
  THEN /\ nextId < MaxTickets
       /\ nextId' = nextId + 1
       /\ tickets' = Put(tickets, nextId + 1,
                         NewTicket(ticket_type, show_date, quantity, receipt_data))
       /\ emails' = emails \cup {SendTicketEmail(nextId + 1)}
       /\ resp' = Plain("register", 201, nextId + 1)
  ELSE /\ resp' = IF dec.status = 201 THEN Plain("register", 500, 0)
                  ELSE Response("register", dec.status, dec.scope, dec.remaining, 0, None)
       /\ UNCHANGED <<tickets, nextId, emails>>

\* main.py 554-574 when the decision dec is Accept, else the rejection or error
RegisterEnd(dec, ticket_type, show_date, quantity, receipt_data) ==
  IF dec.status = 201
  THEN /\ nextId < MaxTickets
       /\ nextId' = nextId + 1
       /\ tickets' = Put(tickets, nextId + 1,
                         NewTicket(ticket_type, show_date, quantity, receipt_data))
       /\ emails' = emails \cup {SendTicketEmail(nextId + 1)}
       /\ resp' = Plain("register", 201, nextId + 1)
  ELSE /\ resp' = Response("register", dec.status, dec.scope, dec.remaining, 0, None)
       /\ UNCHANGED <<tickets, nextId, emails>>

\* schemas.TicketCreate, the fields the capacity rules read
TicketCreate(ticket_type, show_date, quantity) ==
  [ticket_type |-> ticket_type, show_date |-> show_date, quantity |-> quantity]

NoRequest == TicketCreate("", "", 0)

\* the handler on a validated request (the str fields stripped)
RegisterValid(ticket_type, show_date, quantity, receipt_data) ==
  RegisterEnd(RegisterDecision(GetAllSettings(settings), tickets,
                               ticket_type, show_date, quantity),
              ticket_type, show_date, quantity, receipt_data)

Register(ticket_type, show_date, quantity, receipt_data) ==
  /\ IF Blank(ticket_type) \/ Blank(show_date) \/ ~QuantityValid(quantity)
     THEN /\ resp' = Plain("register", 422, 0)
          /\ UNCHANGED <<tickets, nextId, emails>>
     ELSE RegisterValid(PyStrip(ticket_type), PyStrip(show_date), quantity, receipt_data)
  /\ req' = TicketCreate(ticket_type, show_date, quantity)
  /\ UNCHANGED <<settings, audit, clock, procs, env>>

\* ------------------------------------------------------------------------
\* POST /api/admin/checkin, the whole handler in one step; now is the reading
\* of datetime.utcnow()

\* CheckIn without the test of ticket.checked_in
CheckInUnguarded(id, now) ==
  /\ now >= clock
  /\ IF id \notin DOMAIN tickets
     THEN /\ resp' = Plain("checkin", 404, id)
          /\ UNCHANGED <<tickets, audit, clock>>
     ELSE /\ Len(audit) < MaxAudit
          /\ tickets' = [tickets EXCEPT ![id].checked_in = TRUE,
                                        ![id].checked_in_at = Some(now)]
          /\ clock' = now
          /\ audit' = LogAction(audit, "Scanner", "checkin", id, <<>>)
          /\ resp' = AfterLog(Response("checkin", 200, "none", 0, id, Some(now)))
  /\ req' = NoRequest
  /\ UNCHANGED <<nextId, settings, emails, procs, env>>

\* CheckIn that sets checked_in and leaves checked_in_at as it is
CheckInNoTime(id, now) ==
  /\ now >= clock
  /\ IF id \notin DOMAIN tickets
     THEN /\ resp' = Plain("checkin", 404, id)
          /\ UNCHANGED <<tickets, audit, clock>>
     ELSE IF tickets[id].checked_in
     THEN /\ resp' = Response("checkin", 409, "none", 0, id, tickets[id].checked_in_at)
          /\ UNCHANGED <<tickets, audit, clock>>
     ELSE /\ Len(audit) < MaxAudit
          /\ tickets' = [tickets EXCEPT ![id].checked_in = TRUE]
          /\ clock' = now
          /\ audit' = LogAction(audit, "Scanner", "checkin", id, <<>>)
          /\ resp' = AfterLog(Response("checkin", 200, "none", 0, id, None))
  /\ req' = NoRequest
  /\ UNCHANGED <<nextId, settings, emails, procs, env>>

\* CheckIn that also writes an audit row for an identifier it does not find
CheckInLogsMiss(id, now) ==
  /\ now >= clock
  /\ IF id \notin DOMAIN tickets
     THEN /\ Len(audit) < MaxAudit
          /\ resp' = Plain("checkin", 404, id)
          /\ audit' = LogAction(audit, "Scanner", "checkin", id, <<>>)
          /\ UNCHANGED <<tickets, clock>>
     ELSE IF tickets[id].checked_in
     THEN /\ resp' = Response("checkin", 409, "none", 0, id, tickets[id].checked_in_at)
          /\ UNCHANGED <<tickets, audit, clock>>
     ELSE /\ Len(audit) < MaxAudit
          /\ tickets' = [tickets EXCEPT ![id].checked_in = TRUE,
                                        ![id].checked_in_at = Some(now)]
          /\ clock' = now
          /\ audit' = LogAction(audit, "Scanner", "checkin", id, <<>>)
          /\ resp' = AfterLog(Response("checkin", 200, "none", 0, id, Some(now)))
  /\ req' = NoRequest
  /\ UNCHANGED <<nextId, settings, emails, procs, env>>

CheckIn(id, now) ==
  /\ now >= clock
  /\ IF id \notin DOMAIN tickets
     THEN /\ resp' = Plain("checkin", 404, id)
          /\ UNCHANGED <<tickets, audit, clock>>
     ELSE IF tickets[id].checked_in
     THEN /\ resp' = Response("checkin", 409, "none", 0, id, tickets[id].checked_in_at)
          /\ UNCHANGED <<tickets, audit, clock>>
     ELSE /\ Len(audit) < MaxAudit
          /\ tickets' = [tickets EXCEPT ![id].checked_in = TRUE,
                                        ![id].checked_in_at = Some(now)]
          /\ clock' = now
          /\ audit' = LogAction(audit, "Scanner", "checkin", id, <<>>)
          /\ resp' = AfterLog(Response("checkin", 200, "none", 0, id, Some(now)))
  /\ req' = NoRequest
  /\ UNCHANGED <<nextId, settings, emails, procs, env>>

\* ------------------------------------------------------------------------
\* DELETE /api/admin/tickets/{id}

\* DeleteTicket without its audit row
DeleteTicketSilent(id) ==
  /\ IF id \notin DOMAIN tickets
     THEN /\ resp' = Plain("delete", 404, id)
          /\ UNCHANGED tickets
     ELSE /\ tickets' = Remove(tickets, id)
          /\ resp' = Plain("delete", 204, id)
  /\ req' = NoRequest
  /\ UNCHANGED <<nextId, settings, audit, emails, clock, procs, env>>

DeleteTicket(id) ==
  /\ IF id \notin DOMAIN tickets
     THEN /\ resp' = Plain("delete", 404, id)
          /\ UNCHANGED <<tickets, audit>>
     ELSE /\ Len(audit) < MaxAudit
          /\ tickets' = Remove(tickets, id)
          /\ audit' = LogAction(audit, "Admin", "delete_ticket", id, <<>>)
          /\ resp' = Plain("delete", 204, id)
  /\ req' = NoRequest
  /\ UNCHANGED <<nextId, settings, emails, clock, procs, env>>

\* ------------------------------------------------------------------------
\* PATCH /api/admin/tickets/{id}; update holds Optional fields (TicketUpdate)

\* UpdateValid without the quantity validator
UpdateValidAnyQuantity(update) ==
  /\ update.ticket_type # None => ~Blank(update.ticket_type[1])
  /\ update.show_date # None => ~Blank(update.show_date[1])

UpdateValid(update) ==
  /\ update.ticket_type # None => ~Blank(update.ticket_type[1])
  /\ update.show_date # None => ~Blank(update.show_date[1])
  /\ update.quantity # None => QuantityValid(update.quantity[1])

\* Patched that also takes the check-in back
PatchedResetsCheckIn(row, update) ==
  [row EXCEPT
     !.ticket_type = IF update.ticket_type # None THEN PyStrip(update.ticket_type[1]) ELSE @,
     !.show_date = IF update.show_date # None THEN PyStrip(update.show_date[1]) ELSE @,
     !.quantity = IF update.quantity # None THEN update.quantity[1] ELSE @,
     !.payment_status = IF update.payment_status # None THEN update.payment_status[1] ELSE @,
     !.checked_in = FALSE]

\* the row after the assignments of main.py 653-664
Patched(row, update) ==
  [row EXCEPT
     !.ticket_type = IF update.ticket_type # None THEN PyStrip(update.ticket_type[1]) ELSE @,
     !.show_date = IF update.show_date # None THEN PyStrip(update.show_date[1]) ELSE @,
     !.quantity = IF update.quantity # None THEN update.quantity[1] ELSE @,
     !.payment_status = IF update.payment_status # None THEN update.payment_status[1] ELSE @]

\* the fields whose change update_ticket lists in its audit detail
ChangedFields(row, new) ==
  SelectSeq(<<"ticket_type", "show_date", "quantity", "payment_status">>,
            LAMBDA f : CASE f = "ticket_type" -> row.ticket_type # new.ticket_type
                         [] f = "show_date" -> row.show_date # new.show_date
                         [] f = "quantity" -> row.quantity # new.quantity
                         [] f = "payment_status" -> row.payment_status # new.payment_status)

\* main.py 666-674: commit the row new, then log the edit
UpdateCommit(id, new) ==
  /\ Len(audit) < MaxAudit
  /\ tickets' = [tickets EXCEPT ![id] = new]
  /\ audit' = LogAction(audit, "Admin", "edit_ticket", id, ChangedFields(tickets[id], new))
  /\ resp' = AfterLog(Plain("edit", 200, id))

UpdateTicket(id, update) ==
  /\ IF ~UpdateValid(update)
     THEN /\ resp' = Plain("edit", 422, id)
          /\ UNCHANGED <<tickets, audit>>
     ELSE IF id \notin DOMAIN tickets
     THEN /\ resp' = Plain("edit", 404, id)
          /\ UNCHANGED <<tickets, audit>>
     ELSE UpdateCommit(id, Patched(tickets[id], update))
  /\ req' = NoRequest
  /\ UNCHANGED <<nextId, settings, emails, clock, procs, env>>

\* ------------------------------------------------------------------------
\* PUT /api/admin/settings; payload is the request's JSON object, a sequence
\* of members [k |-> key, v |-> value]

RECURSIVE PyStrOfNat(_)
PyStrOfNat(n) ==
  IF n < 10 THEN SubSeq(DigitChars, n + 1, n + 1)
  ELSE PyStrOfNat(n \div 10) \o SubSeq(DigitChars, (n % 10) + 1, (n % 10) + 1)

\* str(v) of a JSON scalar
PyStr(v) ==
  CASE v.t = "str" -> v.v
    [] v.t = "int" -> IF v.v < 0 THEN "-" \o PyStrOfNat(-v.v) ELSE PyStrOfNat(v.v)
    [] v.t = "bool" -> IF v.v THEN "True" ELSE "False"
    [] v.t = "null" -> "None"

\* f"{key}='{value}'"
Fragment(key, value) == key \o "='" \o value \o "'"

\* SetRow that leaves a row that exists as it is
SetRowInsertOnly(rows, key, value) ==
  [k \in DOMAIN rows \cup {key} |-> IF k \in DOMAIN rows THEN rows[k] ELSE value]

\* rows with the row key set to value
SetRow(rows, key, value) ==
  [k \in DOMAIN rows \cup {key} |-> IF k = key THEN value ELSE rows[k]]

\* SettingStep without the test of allowed_keys
SettingStepAnyKey(st, key, value) ==
  [rows |-> SetRow(st.rows, key, value),
   changed |-> IF key \in DOMAIN st.rows /\ st.rows[key] = value THEN st.changed
               ELSE Append(st.changed, Fragment(key, value))]

\* one pass of the loop body (main.py 408-417) on the state st of the loop
SettingStep(st, key, value) ==
  IF key \notin DOMAIN SETTING_DEFAULTS THEN st
  ELSE [rows |-> SetRow(st.rows, key, value),
        changed |-> IF key \in DOMAIN st.rows /\ st.rows[key] = value THEN st.changed
                    ELSE Append(st.changed, Fragment(key, value))]

\* the loop of main.py 407-417 from member n on: the rows and the changed list
RECURSIVE ApplySettings(_, _, _)
ApplySettings(st, payload, n) ==
  IF n > Len(payload) THEN st
  ELSE ApplySettings(SettingStep(st, payload[n].k, PyStr(payload[n].v)), payload, n + 1)

\* main.py 418-421: commit, then log when a key changed
SettingsCommit(r) ==
  /\ settings' = r.rows
  /\ IF r.changed # <<>>
     THEN /\ Len(audit) < MaxAudit
          /\ audit' = LogAction(audit, "Admin", "update_settings", 0, r.changed)
          /\ resp' = AfterLog(Plain("settings", 200, 0))
     ELSE /\ UNCHANGED audit
          /\ resp' = Plain("settings", 200, 0)

UpdateSettings(payload) ==
  /\ SettingsCommit(ApplySettings([rows |-> settings, changed |-> <<>>], payload, 1))
  /\ req' = NoRequest
  /\ UNCHANGED <<tickets, nextId, emails, clock, procs, env>>

\* ------------------------------------------------------------------------
\* GET /api/availability

RECURSIVE CommaAt(_, _)
\* index of the first comma of s at or after i; 0 when there is none
CommaAt(s, i) ==
  IF i > Len(s) THEN 0 ELSE IF Ch(s, i) = "," THEN i ELSE CommaAt(s, i + 1)

RECURSIVE SplitFrom(_, _)
\* s[i:].split(",")
SplitFrom(s, i) ==
  IF CommaAt(s, i) = 0 THEN <<Between(s, i, Len(s))>>
  ELSE <<Between(s, i, CommaAt(s, i) - 1)>> \o SplitFrom(s, CommaAt(s, i) + 1)

\* [d.strip() for d in parts if d.strip()]
StrippedParts(parts) ==
  SelectSeq([n \in DOMAIN parts |-> PyStrip(parts[n])], LAMBDA d : d # "")

\* the legacy comma-separated list (main.py 463, 465)
LegacyShowDates(cfg) == StrippedParts(SplitFrom(cfg.show_dates, 1))

\* d.get("date", "").strip() of an item d of show_dates_json
DateOf(d) ==
  IF d.t # "dict" THEN Raise("AttributeError")
  ELSE IF DictFind(d, "date", Len(d.v)) = 0 THEN Ok("")
  ELSE IF DictGet(d, "date").t # "str" THEN Raise("AttributeError")
  ELSE Ok(PyStrip(DictGet(d, "date").v))

\* the list comprehension of main.py 461 from item n on
RECURSIVE DatesFrom(_, _, _)
DatesFrom(items, n, acc) ==
  IF n > Len(items) THEN Ok(acc)
  ELSE IF DateOf(items[n]).exc # "none" THEN Raise(DateOf(items[n]).exc)
  ELSE DatesFrom(items, n + 1,
                 IF DateOf(items[n]).val = "" THEN acc
                 ELSE Append(acc, DateOf(items[n]).val))

DatesOfItems(items) ==
  IF items.exc # "none" THEN Raise(items.exc) ELSE DatesFrom(items.val, 1, <<>>)

\* except Exception: the legacy list
OrLegacy(r, cfg) == IF r.exc # "none" THEN LegacyShowDates(cfg) ELSE r.val

\* main.py 457-465
ShowDates(cfg) ==
  IF cfg.show_dates_json # ""
  THEN OrLegacy(DatesOfItems(IterTypeDefs(JsonLoads(cfg.show_dates_json))), cfg)
  ELSE LegacyShowDates(cfg)

\* DateInfo reporting the capacity as what remains
DateInfoUnsold(tk, date, eb_limit, total_capacity) ==
  [early_bird_sold      |-> EarlyBirdSold(tk, date),
   early_bird_remaining |-> Max(0, eb_limit - EarlyBirdSold(tk, date)),
   early_bird_sold_out  |-> EarlyBirdSold(tk, date) >= eb_limit,
   total_sold           |-> TotalSold(tk, date),
   total_remaining      |-> Max(0, total_capacity),
   total_sold_out       |-> TotalSold(tk, date) >= total_capacity]

\* the entry of one date (main.py 470-481)
DateInfo(tk, date, eb_limit, total_capacity) ==
  [early_bird_sold      |-> EarlyBirdSold(tk, date),
   early_bird_remaining |-> Max(0, eb_limit - EarlyBirdSold(tk, date)),
   early_bird_sold_out  |-> EarlyBirdSold(tk, date) >= eb_limit,
   total_sold           |-> TotalSold(tk, date),
   total_remaining      |-> Max(0, total_capacity - TotalSold(tk, date)),
   total_sold_out       |-> TotalSold(tk, date) >= total_capacity]

\* the response of get_availability for the dates show_dates, eb_limit and
\* total_capacity the results of int(...) of main.py 466-467
Availability(tk, show_dates, eb_limit, total_capacity) ==
  IF eb_limit.exc # "none" \/ total_capacity.exc # "none"
  THEN [op |-> "availability", status |-> 500, result |-> <<>>]
  ELSE [op |-> "availability", status |-> 200,
        result |-> [d \in {show_dates[n] : n \in DOMAIN show_dates} |->
                      DateInfo(tk, d, eb_limit.val, total_capacity.val)]]

\* get_availability on the settings cfg
AvailabilityOn(cfg, tk) ==
  Availability(tk, ShowDates(cfg), PyIntOfStr(cfg.early_bird_limit),
               PyIntOfStr(cfg.total_capacity))

GetAvailability ==
  /\ resp' = AvailabilityOn(GetAllSettings(settings), tickets)
  /\ req' = NoRequest
  /\ UNCHANGED <<tickets, nextId, settings, audit, emails, clock, procs, env>>

\* ------------------------------------------------------------------------
\* GET /api/admin/ping: the key is verified and the login is logged

DASHBOARD_KEY == "admin321"
FINANCE_KEY == "finance123"
SCANNER_KEY == "admin123"
BACKSTAGE_KEY == "admin"

\* the role the audit row of a login names; None for a key that opens nothing
LoginRole(x_admin_key) ==
  IF x_admin_key = DASHBOARD_KEY THEN Some("Admin")
  ELSE IF x_admin_key = FINANCE_KEY THEN Some("Finance")
  ELSE IF x_admin_key = SCANNER_KEY THEN Some("Scanner")
  ELSE IF x_admin_key = BACKSTAGE_KEY THEN Some("Admin")
  ELSE None

AdminPing(x_admin_key) ==
  /\ IF LoginRole(x_admin_key) = None
     THEN /\ resp' = Plain("login", 401, 0)
          /\ UNCHANGED audit
     ELSE /\ Len(audit) < MaxAudit
          /\ audit' = LogAction(audit, LoginRole(x_admin_key)[1], "login", 0, <<>>)
          /\ resp' = Plain("login", 200, 0)
  /\ req' = NoRequest
  /\ UNCHANGED <<tickets, nextId, settings, emails, clock, procs, env>>

\* ------------------------------------------------------------------------
\* Requests in flight.  Each handler runs in its own worker thread with its own
\* Session (database.py get_db); every query and every commit is one step, and
\* steps of different requests interleave.

Proc(pc, cfg, ticket_type, show_date, quantity, id, status) ==
  [pc |-> pc, cfg |-> cfg, ticket_type |-> ticket_type, show_date |-> show_date,
   quantity |-> quantity, id |-> id, status |-> status,
   at |-> None,      \* checked_in_at of the session's ticket after db.refresh
   entry |-> None]   \* the audit row the request writes once its change is committed

Idle == Proc("idle", SETTING_DEFAULTS, "", "", 0, 0, 0)

\* the request of p has ended with the decision or response status
Finished(p, status) == [procs EXCEPT ![p].pc = "done", ![p].status = status]

At(p, pc) == [procs EXCEPT ![p].pc = pc]

\* register_ticket, line 491: the settings are fetched once
RegBegin(p, ticket_type, show_date, quantity) ==
  /\ procs[p].pc = "idle"
  /\ ~Blank(ticket_type) /\ ~Blank(show_date) /\ QuantityValid(quantity)
  /\ procs' = [procs EXCEPT ![p] = Proc("venue", GetAllSettings(settings),
                                        PyStrip(ticket_type), PyStrip(show_date),
                                        quantity, 0, 0)]
  /\ UNCHANGED <<tickets, nextId, settings, audit, emails, clock, resp, req, env>>

\* a check of register_ticket has decided dec: go on at pc next, or end the request
RegDecided(p, dec, next) ==
  IF dec.status = 201
  THEN /\ procs' = At(p, next)
       /\ UNCHANGED <<resp, req>>
  ELSE /\ procs' = Finished(p, dec.status)
       /\ resp' = Response("register", dec.status, dec.scope, dec.remaining, 0, None)
       /\ req' = TicketCreate(procs[p].ticket_type, procs[p].show_date,
                              procs[p].quantity)

\* lines 494-504: _total_sold is queried and compared
RegVenue(p) ==
  /\ procs[p].pc = "venue"
  /\ RegDecided(p, VenueCheck(procs[p].cfg, tickets, procs[p].show_date,
                              procs[p].quantity), "type")
  /\ UNCHANGED <<tickets, nextId, settings, audit, emails, clock, env>>

\* lines 507-552: the sold count of the type is queried and compared
RegType(p) ==
  /\ procs[p].pc = "type"
  /\ RegDecided(p, TypeCheck(procs[p].cfg, tickets, procs[p].ticket_type,
                             procs[p].show_date, procs[p].quantity), "write")
  /\ UNCHANGED <<tickets, nextId, settings, audit, emails, clock, env>>

\* lines 554-569: the row is inserted and committed
RegWrite(p) ==
  /\ procs[p].pc = "write"
  /\ nextId < MaxTickets
  /\ nextId' = nextId + 1
  /\ tickets' = Put(tickets, nextId + 1,
                    NewTicket(procs[p].ticket_type, procs[p].show_date,
                              procs[p].quantity, None))
  /\ procs' = [procs EXCEPT ![p].pc = "email", ![p].id = nextId + 1]
  /\ UNCHANGED <<settings, audit, emails, clock, resp, req, env>>

\* lines 572-574: the confirmation email, then the response
RegEmail(p) ==
  /\ procs[p].pc = "email"
  /\ emails' = emails \cup {SendTicketEmail(procs[p].id)}
  /\ procs' = Finished(p, 201)
  /\ resp' = Plain("register", 201, procs[p].id)
  /\ req' = TicketCreate(procs[p].ticket_type, procs[p].show_date, procs[p].quantity)
  /\ UNCHANGED <<tickets, nextId, settings, audit, clock, env>>

\* checkin_ticket, lines 711-729: the ticket is queried; a missing or checked-in
\* ticket ends the request
CkRead(p, id) ==
  /\ procs[p].pc = "idle"
  /\ IF id \notin DOMAIN tickets
     THEN /\ procs' = [procs EXCEPT ![p].pc = "done", ![p].id = id, ![p].status = 404]
          /\ resp' = Plain("checkin", 404, id)
          /\ req' = NoRequest
     ELSE IF tickets[id].checked_in
     THEN /\ procs' = [procs EXCEPT ![p].pc = "done", ![p].id = id, ![p].status = 409]
          /\ resp' = Response("checkin", 409, "none", 0, id, tickets[id].checked_in_at)
          /\ req' = NoRequest
     ELSE /\ procs' = [procs EXCEPT ![p].pc = "write", ![p].id = id]
          /\ UNCHANGED <<resp, req>>
  /\ UNCHANGED <<tickets, nextId, settings, audit, emails, clock, env>>

\* lines 731-734: UPDATE tickets SET checked_in, checked_in_at WHERE ticket_id = id,
\* committed; when the row is gone by now the UPDATE matches nothing and the flush
\* raises StaleDataError
CkWrite(p, now) ==
  /\ procs[p].pc = "write"
  /\ now >= clock
  /\ IF procs[p].id \in DOMAIN tickets
     THEN /\ clock' = now
          /\ tickets' = [tickets EXCEPT ![procs[p].id].checked_in = TRUE,
                                        ![procs[p].id].checked_in_at = Some(now)]
          /\ procs' = [procs EXCEPT ![p].pc = "log", ![p].at = Some(now)]
          /\ UNCHANGED <<resp, req>>
     ELSE /\ procs' = Finished(p, 500)
          /\ resp' = Plain("checkin", 500, procs[p].id)
          /\ req' = NoRequest
          /\ UNCHANGED <<tickets, clock>>
  /\ UNCHANGED <<nextId, settings, audit, emails, env>>

\* lines 736-745: the audit row, then the response
CkLog(p) ==
  /\ procs[p].pc = "log" /\ procs[p].entry = None
  /\ Len(audit) < MaxAudit
  /\ audit' = LogAction(audit, "Scanner", "checkin", procs[p].id, <<>>)
  /\ procs' = Finished(p, AfterLog(Plain("checkin", 200, procs[p].id)).status)
  /\ resp' = AfterLog(Response("checkin", 200, "none", 0, procs[p].id, procs[p].at))
  /\ req' = NoRequest
  /\ UNCHANGED <<tickets, nextId, settings, emails, clock, env>>

\* the change of request p is committed; its audit row is still to be written
Committed(p, action, id, changes) ==
  [procs EXCEPT ![p].pc = "log", ![p].id = id,
                ![p].entry = Some(AuditEntry("Admin", action, id, changes))]

\* delete_ticket, lines 684-697: the ticket is queried, deleted and the delete
\* committed
DelWriteUncommitted(p, id) ==
  /\ procs[p].pc = "idle"
  /\ IF id \notin DOMAIN tickets
     THEN /\ procs' = [procs EXCEPT ![p].pc = "done", ![p].id = id, ![p].status = 404]
          /\ resp' = Plain("delete", 404, id)
          /\ req' = NoRequest
     ELSE /\ procs' = Committed(p, "delete_ticket", id, <<>>)
          /\ UNCHANGED <<resp, req>>
  /\ UNCHANGED <<tickets, nextId, settings, audit, emails, clock, env>>

DelWrite(p, id) ==
  /\ procs[p].pc = "idle"
  /\ IF id \notin DOMAIN tickets
     THEN /\ procs' = [procs EXCEPT ![p].pc = "done", ![p].id = id, ![p].status = 404]
          /\ resp' = Plain("delete", 404, id)
          /\ req' = NoRequest
          /\ UNCHANGED tickets
     ELSE /\ tickets' = Remove(tickets, id)
          /\ procs' = Committed(p, "delete_ticket", id, <<>>)
          /\ UNCHANGED <<resp, req>>
  /\ UNCHANGED <<nextId, settings, audit, emails, clock, env>>

\* update_ticket, lines 631-667: the ticket is queried, the supplied fields are
\* assigned and the row committed
EditWrite(p, id, update) ==
  /\ procs[p].pc = "idle"
  /\ IF ~UpdateValid(update) \/ id \notin DOMAIN tickets
     THEN /\ procs' = [procs EXCEPT ![p].pc = "done", ![p].id = id,
                                    ![p].status = IF UpdateValid(update) THEN 404 ELSE 422]
          /\ resp' = Plain("edit", IF UpdateValid(update) THEN 404 ELSE 422, id)
          /\ req' = NoRequest
          /\ UNCHANGED tickets
     ELSE /\ tickets' = [tickets EXCEPT ![id] = Patched(tickets[id], update)]
          /\ procs' = Committed(p, "edit_ticket", id,
                                ChangedFields(tickets[id], Patched(tickets[id], update)))
          /\ UNCHANGED <<resp, req>>
  /\ UNCHANGED <<nextId, settings, audit, emails, clock, env>>

\* update_settings, lines 418-421 after the loop has left r: the rows are
\* committed; nothing is logged when no key changed
SetWriteEnd(p, r) ==
  /\ settings' = r.rows
  /\ IF r.changed # <<>>
     THEN /\ procs' = Committed(p, "update_settings", 0, r.changed)
          /\ UNCHANGED <<resp, req>>
     ELSE /\ procs' = Finished(p, 200)
          /\ resp' = Plain("settings", 200, 0)
          /\ req' = NoRequest

SetWrite(p, payload) ==
  /\ procs[p].pc = "idle"
  /\ SetWriteEnd(p, ApplySettings([rows |-> settings, changed |-> <<>>], payload, 1))
  /\ UNCHANGED <<tickets, nextId, audit, emails, clock, env>>

\* what the handler that wrote the audit row e answers
Logged(e) ==
  CASE e.action = "delete_ticket" -> Plain("delete", 204, e.id)
    [] e.action = "edit_ticket" -> AfterLog(Plain("edit", 200, e.id))
    [] e.action = "update_settings" -> AfterLog(Plain("settings", 200, 0))

\* the _log_action call of update_settings, update_ticket and delete_ticket, then
\* the response
AdminLog(p) ==
  /\ procs[p].pc = "log" /\ procs[p].entry # None
  /\ Len(audit) < MaxAudit
  /\ audit' = LogAction(audit, "Admin", procs[p].entry[1].action,
                        procs[p].entry[1].id, procs[p].entry[1].changes)
  /\ procs' = Finished(p, Logged(procs[p].entry[1]).status)
  /\ resp' = Logged(procs[p].entry[1])
  /\ req' = NoRequest
  /\ UNCHANGED <<tickets, nextId, settings, emails, clock, env>>

\* ------------------------------------------------------------------------
\* The state after construction: empty tables (create_all on an empty database)

NoRows == [k \in {} |-> ""]
NoTickets == [i \in {} |-> 0]

Init ==
  /\ tickets = NoTickets
  /\ nextId = 0
  /\ settings = NoRows
  /\ audit = <<>>
  /\ emails = {}
  /\ clock = 0
  /\ resp = NoResponse
  /\ req = NoRequest
  /\ procs = [p \in 1..NumProcs |-> Idle]
  /\ env = Healthy

\* ------------------------------------------------------------------------
\* Inputs

Dates == {"2026-04-19", "2026-04-26"}
TicketTypes == {"Early Bird", "Standard", "VIP"}
TicketIds == 1..MaxTickets

JStr(x) == [t |-> "str", v |-> x]
JInt(x) == [t |-> "int", v |-> x]
Set1(key, value) == <<[k |-> key, v |-> value]>>

NoUpdate == [ticket_type |-> None, show_date |-> None, quantity |-> None,
             payment_status |-> None]

\* ------------------------------------------------------------------------
\* Spec: every handler runs as one step (requests served one after another)

SpecQuantities == {1, 2, 11}
SpecTypes == {"Early Bird", "VIP"}

SpecPayloads ==
  << Set1("total_capacity", JInt(2)),
     Set1("early_bird_limit", JStr("1")),
     Set1("venue", JStr("hall")) >>

SpecUpdates ==
  { [NoUpdate EXCEPT !.quantity = Some(2)],
    [NoUpdate EXCEPT !.show_date = Some("2026-04-26")],
    [NoUpdate EXCEPT !.quantity = Some(0)] }

Next ==
  \/ \E ty \in SpecTypes, d \in Dates, q \in SpecQuantities : Register(ty, d, q, None)
  \/ \E id \in TicketIds, u \in SpecUpdates : UpdateTicket(id, u)
  \/ \E id \in TicketIds : DeleteTicket(id)
  \/ \E id \in TicketIds, now \in 0..MaxClock : CheckIn(id, now)
  \/ \E n \in DOMAIN SpecPayloads : UpdateSettings(SpecPayloads[n])

Spec == Init /\ [][Next]_vars

\* ------------------------------------------------------------------------
\* SpecGuard: the admin configures the event once, then visitors register

\* the first settings update on a new database
Configure(payload) ==
  /\ settings = NoRows /\ audit = <<>> /\ nextId = 0
  /\ \A p \in DOMAIN procs : procs[p].pc = "idle"
  /\ UpdateSettings(payload)

Set2(k1, v1, k2, v2) == <<[k |-> k1, v |-> v1], [k |-> k2, v |-> v2]>>

Types(text) == Set2("total_capacity", JInt(1), "ticket_types_json", JStr(text))

GuardPayloads ==
  << \* legacy mode
     Set2("total_capacity", JInt(1), "early_bird_limit", JStr("")),
     Set1("total_capacity", JStr("3"))
       \o Set2("early_bird_limit", JStr("2"), "standard_limit", JInt(1)),
     \* structured mode, limits that read as numbers
     Set2("total_capacity", JInt(2), "ticket_types_json",
          JStr("[{\"name\":\"Early Bird\",\"price\":\"25\",\"limit\":1},{\"name\":\"VIP\",\"price\":\"50\",\"limit\":\"1\"}]")),
     Types(" [ {\"name\": \"VIP\", \"limit\": 1.5} ] "),
     \* structured mode, a limit that is not positive
     Types("[{\"name\":\"VIP\",\"limit\":0}]"),
     Types("[{\"name\":\"VIP\",\"limit\":\"0\"}]"),
     Types("[{\"name\":\"VIP\",\"limit\":-1}]"),
     Types("[{\"name\":\"VIP\",\"limit\":\"\"}]"),
     Types("[{\"name\":\"VIP\",\"price\":\"50\"}]"),
     Types("[{\"name\":\"VIP\",\"limit\":null}]"),
     \* structured mode, no limit to be had
     Types("[{\"name\":\"Standard\",\"limit\":1}]"),
     Types("[{\"price\":\"50\",\"limit\":1}]"),
     Types("[{\"name\":\"VIP\",\"limit\":\"many\"}]"),
     Types("[{\"name\":\"VIP\",\"limit\":[1]}]"),
     Types("[{\"name\":\"VIP\",\"limit\":1}"),
     Set1("early_bird_limit", JStr("0")) \o Types("VIP:1"),
     Types("[]"),
     Types("5"),
     Types("null"),
     Types("[1]"),
     Types("{\"name\":\"VIP\",\"limit\":1}"),
     Types("\"VIP\"") >>

GuardQuantities == {1, 2, 3}

GuardNext ==
  \/ \E n \in DOMAIN GuardPayloads : Configure(GuardPayloads[n])
  \/ \E ty \in TicketTypes, d \in Dates, q \in GuardQuantities :
       settings # NoRows /\ Register(ty, d, q, None)

SpecGuard == Init /\ [][GuardNext]_vars

\* ------------------------------------------------------------------------
\* SpecFixed: the admin configures the event once; after that tickets are only
\* registered, deleted and checked in, one request at a time

FixedPayloads ==
  << \* legacy mode, Early Bird and Standard limited
     Set1("total_capacity", JStr("3"))
       \o Set2("early_bird_limit", JStr("2"), "standard_limit", JInt(1)),
     \* structured mode, Early Bird and VIP limited; the lookup of Standard
     \* fails on the entry without a name
     Set2("total_capacity", JInt(2), "ticket_types_json",
          JStr("[{\"name\":\"Early Bird\",\"limit\":1},{\"name\":\"VIP\",\"limit\":\"1\"},{\"price\":\"50\"}]")) >>

FixedQuantities == {1, 2}

\* the tickets on sale: Early Bird and Standard for the first night, VIP for the
\* second
FixedOffers ==
  { <<"Early Bird", "2026-04-19">>, <<"Standard", "2026-04-19">>, <<"VIP", "2026-04-26">> }

FixedNext ==
  \/ \E n \in DOMAIN FixedPayloads : Configure(FixedPayloads[n])
  \/ \E o \in FixedOffers, q \in FixedQuantities :
       settings # NoRows /\ Register(o[1], o[2], q, None)
  \/ \E id \in TicketIds : settings # NoRows /\ DeleteTicket(id)
  \/ \E id \in TicketIds : settings # NoRows /\ CheckIn(id, clock)

SpecFixed == Init /\ [][FixedNext]_vars

\* ------------------------------------------------------------------------
\* SpecDoor: tickets are sold, edited, deleted and scanned at the door

DoorUpdates ==
  { [NoUpdate EXCEPT !.quantity = Some(2)],
    [NoUpdate EXCEPT !.payment_status = Some("receipt_uploaded")] }

DoorNext ==
  \/ \E d \in Dates : Register("VIP", d, 1, None)
  \/ \E id \in TicketIds, u \in DoorUpdates : UpdateTicket(id, u)
  \/ \E id \in TicketIds : DeleteTicket(id)
  \/ \E id \in TicketIds, now \in 0..MaxClock : CheckIn(id, now)

SpecDoor == Init /\ [][DoorNext]_vars

\* ------------------------------------------------------------------------
\* SpecRace: the event is configured, then NumProcs registrations run concurrently

RacePayloads ==
  << Set1("total_capacity", JInt(2)), Set1("total_capacity", JStr("10")) >>

RaceQuantities == {1, 2, 10}

RaceNext ==
  \/ \E n \in DOMAIN RacePayloads : Configure(RacePayloads[n])
  \/ \E p \in DOMAIN procs, d \in Dates, q \in RaceQuantities : RegBegin(p, "VIP", d, q)
  \/ \E p \in DOMAIN procs : RegVenue(p)
  \/ \E p \in DOMAIN procs : RegType(p)
  \/ \E p \in DOMAIN procs : RegWrite(p)
  \/ \E p \in DOMAIN procs : RegEmail(p)

SpecRace == Init /\ [][RaceNext]_vars

\* ------------------------------------------------------------------------
\* SpecScan: tickets are sold, and NumProcs scanners check in concurrently

ScanNext ==
  \/ Register("VIP", "2026-04-19", 1, None)
  \/ \E p \in DOMAIN procs, id \in TicketIds : CkRead(p, id)
  \/ \E p \in DOMAIN procs, now \in 0..MaxClock : CkWrite(p, now)
  \/ \E p \in DOMAIN procs : CkLog(p)

SpecScan == Init /\ [][ScanNext]_vars

\* ------------------------------------------------------------------------
\* SpecMail: tickets are sold while the mail service comes and goes
\* SpecFaults: every handler runs as one step while the audit table comes and goes

\* the mail service or the audit table changes its condition
Environment(e) ==
  /\ e # env
  /\ env' = e
  /\ UNCHANGED <<tickets, nextId, settings, audit, emails, clock, resp, req, procs>>

MailNext ==
  \/ \E n \in {"unconfigured", "up", "down"} : Environment([env EXCEPT !.notifier = n])
  \/ Register("VIP", "2026-04-19", 1, None)
  \/ \E p \in DOMAIN procs : RegBegin(p, "VIP", "2026-04-19", 1)
  \/ \E p \in DOMAIN procs : RegVenue(p)
  \/ \E p \in DOMAIN procs : RegType(p)
  \/ \E p \in DOMAIN procs : RegWrite(p)
  \/ \E p \in DOMAIN procs : RegEmail(p)

SpecMail == Init /\ [][MailNext]_vars

FaultKeys == {SCANNER_KEY, "guess"}

FaultPayloads ==
  << Set1("total_capacity", JInt(1)), Set1("venue", JStr("hall")) >>

\* the tickets sold in SpecFaults
FaultTickets == 1

FaultNext ==
  \/ \E b \in BOOLEAN : Environment([env EXCEPT !.audit_ok = b])
  \/ nextId < FaultTickets /\ Register("VIP", "2026-04-19", 1, None)
  \/ \E id \in 1..FaultTickets :
       UpdateTicket(id, [NoUpdate EXCEPT !.quantity = Some(2)])
  \/ \E id \in 1..FaultTickets : DeleteTicket(id)
  \/ \E id \in 1..FaultTickets : CheckIn(id, clock)
  \/ \E n \in DOMAIN FaultPayloads : UpdateSettings(FaultPayloads[n])
  \/ \E key \in FaultKeys : AdminPing(key)

SpecFaults == Init /\ [][FaultNext]_vars

\* ------------------------------------------------------------------------
\* SpecAdmin: NumProcs admin and scanner requests run concurrently, each commit
\* and each audit write a step of its own

AdminPayloads ==
  << Set1("total_capacity", JInt(1)), Set1("total_capacity", JStr("2")),
     Set1("venue", JStr("hall")) >>

AdminNext ==
  \/ Register("VIP", "2026-04-19", 1, None)
  \/ \E p \in DOMAIN procs, id \in TicketIds : DelWrite(p, id)
  \/ \E p \in DOMAIN procs, id \in TicketIds :
       EditWrite(p, id, [NoUpdate EXCEPT !.quantity = Some(2)])
  \/ \E p \in DOMAIN procs, n \in DOMAIN AdminPayloads : SetWrite(p, AdminPayloads[n])
  \/ \E p \in DOMAIN procs : AdminLog(p)
  \/ \E p \in DOMAIN procs, id \in TicketIds : CkRead(p, id)
  \/ \E p \in DOMAIN procs, now \in 0..MaxClock : CkWrite(p, now)
  \/ \E p \in DOMAIN procs : CkLog(p)

SpecAdmin == Init /\ [][AdminNext]_vars

\* ------------------------------------------------------------------------
\* SpecSettings: the admin saves settings again and again while tickets are sold

SettingsPayloads ==
  << Set1("total_capacity", JInt(2)),
     Set1("total_capacity", JStr("3")),
     Set1("early_bird_limit", JStr("30")),   \* the default value
     Set1("early_bird_limit", JInt(5)),
     Set1("venue", JStr("hall")),            \* not a key of SETTING_DEFAULTS
     Set2("seats", JInt(9), "contact_name", [t |-> "bool", v |-> TRUE]),
     Set1("standard_limit", PyNone),
     Set1("total_capacity", JInt(2)) \o Set2("contact_name", [t |-> "bool", v |-> TRUE],
                                             "standard_limit", PyNone),
     Set1("total_capacity", JStr("")) >>

SettingsNext ==
  \/ \E n \in DOMAIN SettingsPayloads : UpdateSettings(SettingsPayloads[n])
  \/ \E d \in Dates : Register("VIP", d, 1, None)

SpecSettings == Init /\ [][SettingsNext]_vars

\* ------------------------------------------------------------------------
\* SpecDesk: tickets are sold with and without a receipt, and the admin edits,
\* deletes and checks them in

DeskUpdates ==
  { [NoUpdate EXCEPT !.quantity = Some(2)],
    [NoUpdate EXCEPT !.quantity = Some(11)],
    [NoUpdate EXCEPT !.payment_status = Some("paid")],
    [NoUpdate EXCEPT !.ticket_type = Some(" Standard ")] }

DeskQuantities == {0, 1, 11}

DeskNext ==
  \/ \E q \in DeskQuantities, r \in {None, Some("data:image/png;base64,AAAA")} :
       Register("VIP", "2026-04-19", q, r)
  \/ \E id \in TicketIds, u \in DeskUpdates : UpdateTicket(id, u)
  \/ \E id \in TicketIds : DeleteTicket(id)
  \/ \E id \in TicketIds : CheckIn(id, clock)

SpecDesk == Init /\ [][DeskNext]_vars

\* ------------------------------------------------------------------------
\* SpecView: the event is configured, tickets are sold in pairs, and the
\* availability is read

ViewPayloads ==
  << Set1("total_capacity", JInt(4)),
     Set2("total_capacity", JInt(3), "show_dates", JStr(" 2026-04-26 ,, ")),
     Set2("total_capacity", JStr("3"),
          "show_dates_json", JStr("[{\"date\": \" 2026-04-19 \"}, {\"time\": \"8pm\"}]")),
     Set2("total_capacity", JInt(3), "show_dates_json", JStr("[{\"date\": null}]")),
     Set2("total_capacity", JInt(3), "early_bird_limit", JStr("")) >>

ViewQuantities == {2, 11}

ViewNext ==
  \/ \E n \in DOMAIN ViewPayloads : Configure(ViewPayloads[n])
  \/ \E ty \in {"Early Bird", "VIP"}, d \in Dates, q \in ViewQuantities :
       settings # NoRows /\ Register(ty, d, q, None)
  \/ GetAvailability

SpecView == Init /\ [][ViewNext]_vars

\* ------------------------------------------------------------------------
\* What the claims speak of

\* the effective configuration of the current state
Config == GetAllSettings(settings)

\* int(total_capacity) of the current state
Capacity == PyIntOfStr(Config.total_capacity)

\* max(0, total_capacity - soldTotal(date)), for a capacity that reads as a number
TotalRemaining(d) == Max(0, Capacity.val - TotalSold(tickets, d))

LegacyMode == Config.ticket_types_json = ""

\* the last step was a request of handler op (every handler ends in a response)
Answered(op) == resp'.op = op

\* C1: at every point in time, after any sequence of register, edit, delete,
\* check-in and settings-update requests, the quantities of the stored tickets of
\* each show date sum to at most the effective total_capacity.
C1_SoldWithinCapacity ==
  \A d \in Dates : Capacity.exc = "none" => TotalSold(tickets, d) <= Capacity.val

\* the type list, read as JSON
TypeList == JsonLoads(Config.ticket_types_json)

Named(e, ty) ==
  /\ e.t = "dict"
  /\ DictGet(e, "name").t = "str"
  /\ DictGet(e, "name").v = ty

\* the limits the entries of the type list that name ty declare (null: none declared)
DeclaredLimits(ty) ==
  IF TypeList.exc = "none" /\ TypeList.val.t = "list"
  THEN {DictGet(TypeList.val.v[n], "limit") :
          n \in {m \in DOMAIN TypeList.val.v : Named(TypeList.val.v[m], ty)}}
  ELSE {}

\* v reads as a number
Readable(v) == PyInt(v).exc = "none"

Positive(v) == Readable(v) /\ PyInt(v).val > 0

\* zero, negative, empty or missing
NotPositive(v) ==
  \/ v.t = "null"
  \/ v.t = "str" /\ v.v = ""
  \/ Readable(v) /\ PyInt(v).val <= 0

\* the Early Bird limit register_ticket applies in legacy mode
EarlyBirdLimit ==
  PyIntOfStr(IF Config.early_bird_limit # "" THEN Config.early_bird_limit ELSE "30")

StandardLimit == PyIntOfStr(Config.standard_limit)

\* C2: at every point in time, for each show date and each ticket type with a
\* configured limit (here Early Bird and Standard in legacy mode), the quantities
\* of the stored tickets of that type and date sum to at most the limit.
C2_TypeSoldWithinLimit ==
  \A d \in Dates :
    IF LegacyMode
    THEN /\ EarlyBirdLimit.exc = "none" =>
              TypeSold(tickets, "Early Bird", d) <= EarlyBirdLimit.val
         /\ (Config.standard_limit # "" /\ StandardLimit.exc = "none") =>
              TypeSold(tickets, "Standard", d) <= StandardLimit.val
    ELSE \A ty \in TicketTypes : \A v \in DeclaredLimits(ty) :
           Positive(v) => TypeSold(tickets, ty, d) <= PyInt(v).val

\* C5: of check-in requests served one after another, the first on a ticket moves
\* it to checked-in and succeeds, every later one is answered 409 and changes
\* nothing; no step of any handler resets checked_in or changes checked_in_at.
C5_CheckInOnce ==
  [][ /\ (Answered("checkin") /\ resp'.id \in DOMAIN tickets) =>
           IF tickets[resp'.id].checked_in
           THEN /\ resp'.status = 409
                /\ resp'.at = tickets[resp'.id].checked_in_at
                /\ tickets' = tickets
           ELSE /\ resp'.status = 200
                /\ resp'.at # None
                /\ tickets' = [tickets EXCEPT ![resp'.id].checked_in = TRUE,
                                              ![resp'.id].checked_in_at = resp'.at]
      /\ \A id \in DOMAIN tickets \cap DOMAIN tickets' :
           tickets[id].checked_in =>
             /\ tickets'[id].checked_in
             /\ tickets'[id].checked_in_at = tickets[id].checked_in_at ]_vars

\* C5: a ticket checked in earlier is scanned again at a later time and refused
C5_Witness ==
  /\ resp.op = "checkin" /\ resp.status = 409
  /\ resp.id \in DOMAIN tickets
  /\ tickets[resp.id].checked_in_at = Some(0)
  /\ clock > 0

\* the requests that have written the check-in of ticket id
CheckInWriters(id) ==
  {p \in DOMAIN procs : /\ procs[p].id = id
                        /\ \/ procs[p].pc = "log"
                           \/ procs[p].pc = "done" /\ procs[p].status = 200}

\* C6: a ticket is checked in exactly once even when check-in requests
\* interleave: at most one request writes checked_in_at and returns success.
C6_CheckInExactlyOnce ==
  \A id \in DOMAIN tickets : Cardinality(CheckInWriters(id)) <= 1

\* C7: a registration rejected for capacity writes nothing: tickets, settings,
\* audit log and notifications are as before.
C7_RejectWritesNothing ==
  [][ (Answered("register") /\ resp'.status = 409) =>
        UNCHANGED <<tickets, nextId, settings, audit, emails>> ]_vars

\* C7: a registration was rejected by a per-type limit while tickets are stored
C7_Witness ==
  /\ resp.op = "register" /\ resp.status = 409 /\ resp.scope = "type"
  /\ DOMAIN tickets # {}

\* the registration requests started for date d
Started(d) == {p \in DOMAIN procs : procs[p].pc # "idle" /\ procs[p].show_date = d}

\* C3 as stated: when N registrations for one date interleave, each a read, a
\* decision and a write, the date's sum of quantities exceeds total_capacity by
\* at most N - 1 units.
C3_OvershootBelowRequests ==
  \A d \in Dates :
    (Capacity.exc = "none" /\ Started(d) # {}) =>
      TotalSold(tickets, d) <= Capacity.val + (Cardinality(Started(d)) - 1)

\* C3: when N registrations for one date interleave, the date's sum of
\* quantities exceeds total_capacity by at most (N - 1) * 10 units: every request
\* but one may be written on a stale count, each for at most 10 tickets.
C3_OvershootBelowRequestsTimesMax ==
  \A d \in Dates :
    (Capacity.exc = "none" /\ Started(d) # {}) =>
      TotalSold(tickets, d) <=
        Capacity.val + (Cardinality(Started(d)) - 1) * MaxQuantity

\* C3: two interleaved requests of 10 tickets each were both written against a
\* capacity of 10
C3_Witness ==
  \E d \in Dates :
    /\ Capacity.exc = "none"
    /\ Cardinality(Started(d)) = 2
    /\ \A p \in Started(d) : procs[p].pc = "done" /\ procs[p].status = 201
    /\ TotalSold(tickets, d) = Capacity.val + MaxQuantity

\* the last step answered a registration request that passed validation
AnsweredValid ==
  /\ Answered("register")
  /\ ~Blank(req'.ticket_type) /\ ~Blank(req'.show_date) /\ QuantityValid(req'.quantity)

\* C4: in register the venue-wide check is decided first: a request for more
\* than max(0, total_capacity - sold(date)) is rejected with the venue-wide
\* remaining count whatever the per-type configuration is, and an accepted
\* registration leaves the date's total at most total_capacity.
C4_VenueCheckFirst ==
  [][ (AnsweredValid /\ Capacity.exc = "none") =>
        /\ req'.quantity > TotalRemaining(req'.show_date) =>
             /\ resp' = Response("register", 409, "total",
                                 TotalRemaining(req'.show_date), 0, None)
             /\ tickets' = tickets
        /\ resp'.status = 201 =>
             TotalSold(tickets', req'.show_date) <= Capacity.val ]_vars

\* C4: a request was rejected with the venue-wide count under a type list that
\* is not well-formed JSON
C4_Witness ==
  /\ resp.op = "register" /\ resp.status = 409 /\ resp.scope = "total"
  /\ ~LegacyMode
  /\ TypeList.exc # "none"

\* what is left of the limit of type ty in legacy mode
LegacyRemaining(ty, d) ==
  Max(0, (IF ty = "Early Bird" THEN EarlyBirdLimit.val ELSE StandardLimit.val)
         - TypeSold(tickets, ty, d))

LegacyLimited(ty) ==
  \/ ty = "Early Bird"
  \/ ty = "Standard" /\ Config.standard_limit # ""

\* the legacy limits that apply to ty read as numbers
LegacyReadable(ty) ==
  /\ ty = "Early Bird" => EarlyBirdLimit.exc = "none"
  /\ (ty = "Standard" /\ Config.standard_limit # "") => StandardLimit.exc = "none"

\* the step answered a valid request that passed the venue-wide check
PassedVenue ==
  /\ AnsweredValid
  /\ Capacity.exc = "none"
  /\ req'.quantity <= TotalRemaining(req'.show_date)

C9_LookupFailureIsNoLimit ==
  [][ (~LegacyMode /\ PassedVenue) =>
        /\ resp'.status # 500
        /\ (\A v \in DeclaredLimits(req'.ticket_type) : ~Readable(v)) =>
             resp'.status = 201 ]_vars

\* C10: in structured mode a matching type whose declared limit is zero (the
\* number 0 or the string "0"), negative, empty or missing imposes no limit: a
\* request of that type that passes the venue-wide check is accepted.
C10_OnlyPositiveLimits ==
  [][ ( /\ ~LegacyMode /\ PassedVenue
        /\ DeclaredLimits(req'.ticket_type) # {}
        /\ \A v \in DeclaredLimits(req'.ticket_type) : NotPositive(v) ) =>
        resp'.status = 201 ]_vars

\* the configuration with the structured type list taken away
WithoutTypeList == [Config EXCEPT !.ticket_types_json = ""]

\* what register_ticket decides on the last request when the type list is absent
LegacyDecision ==
  RegisterDecision(WithoutTypeList, tickets, req'.ticket_type, req'.show_date,
                   req'.quantity)

\* C11: a ticket_types_json holding malformed JSON is treated as absent:
\* registration does not raise and answers as it would with the override empty,
\* that is, it applies the legacy Early Bird and Standard limits.
C11_MalformedIsAbsent ==
  [][ (AnsweredValid /\ ~LegacyMode /\ TypeList.exc # "none") =>
        /\ resp'.status = LegacyDecision.status
        /\ resp'.scope = LegacyDecision.scope
        /\ resp'.remaining = LegacyDecision.remaining ]_vars

\* the step is a request of handler op, not a change of the environment
Served(op) == Answered(op) /\ env' = env

\* what register_ticket decides on the last request
Decision ==
  RegisterDecision(Config, tickets, req'.ticket_type, req'.show_date, req'.quantity)

\* C12: registration success is independent of the notifier: whether the
\* confirmation email is sent, fails or is not configured, a registration the
\* capacity rules accept returns the new ticket, which is stored as submitted
\* before the email is attempted, and no other ticket is altered.  Where the
\* handler runs step by step, the step that attempts the email answers 201 and
\* writes nothing: the ticket was committed by an earlier step.
C12_NotifierIndependent ==
  [][ /\ (Served("register") /\ AnsweredValid /\ procs' = procs
                             /\ Decision.status = 201) =>
          /\ resp'.status = 201
          /\ tickets' = Put(tickets, resp'.id,
                            NewTicket(req'.ticket_type, req'.show_date,
                                      req'.quantity, None))
          /\ resp'.id \notin DOMAIN tickets
          /\ \E o \in {"sent", "failed", "skipped"} :
               emails' = emails \cup {[id |-> resp'.id, outcome |-> o]}
      /\ (procs' # procs /\ emails' # emails) =>
          /\ resp'.op = "register" /\ resp'.status = 201
          /\ resp'.id \in 1..nextId
          /\ UNCHANGED <<tickets, nextId>>
          /\ \E o \in {"sent", "failed", "skipped"} :
               emails' = emails \cup {[id |-> resp'.id, outcome |-> o]} ]_vars

\* C12: a registration has succeeded although its confirmation email failed, and
\* another although no mail service is configured
C12_Witness ==
  /\ resp.op = "register" /\ resp.status = 201
  /\ \E m \in emails : m.outcome = "failed" /\ m.id \in DOMAIN tickets
  /\ \E m \in emails : m.outcome = "skipped" /\ m.id \in DOMAIN tickets

\* C13: a failure of the audit write never aborts the operation that triggered
\* it: while the audit table refuses writes, a settings update, ticket edit,
\* ticket delete, check-in or login never ends in a server error, and the only
\* thing missing afterwards is the audit entry.
C13_AuditFailureNeverAborts ==
  [][ (Served("settings") \/ Served("edit") \/ Served("delete")
         \/ Served("checkin") \/ Served("login")) =>
        (~env.audit_ok => resp'.status # 500 /\ audit' = audit) ]_vars

\* the change the audit entry e reports is in the store
InStore(e) ==
  CASE e.action = "checkin" -> e.id \in DOMAIN tickets => tickets[e.id].checked_in
    [] e.action = "delete_ticket" -> e.id \notin DOMAIN tickets
    [] e.action = "edit_ticket" -> e.id \in 1..nextId
    [] e.action = "update_settings" ->
         \A n \in DOMAIN e.changes :
           \E k \in DOMAIN settings : StartsWith(e.changes[n], 1, k \o "='")
    [] OTHER -> TRUE

\* every entry of the audit log reports a change that is in the store
Recorded == \A n \in DOMAIN audit : InStore(audit[n])

\* C14: in settings update, ticket edit, ticket delete and check-in the audit
\* entry is written only after the state change is committed: the step that
\* writes the entry belongs to a request whose commit was an earlier step and
\* writes nothing else, and every entry of the log reports a change the store
\* holds (a checked-in or deleted ticket, a deleted ticket, a stored setting).
C14_CommitBeforeAudit ==
  [][ /\ audit' # audit =>
          /\ UNCHANGED <<tickets, settings>>
          /\ \E p \in DOMAIN procs : procs[p].pc = "log" /\ procs'[p].pc = "done"
          /\ InStore(audit'[Len(audit')])
      /\ Recorded' ]_vars

\* C14: a delete and a settings update, running side by side, have committed and
\* then logged
C14_Witness ==
  /\ Len(audit) = 2
  /\ \E n \in DOMAIN audit : audit[n].action = "delete_ticket"
  /\ \E n \in DOMAIN audit : audit[n].action = "update_settings"
  /\ settings # NoRows

\* C15: the audit log is append-only: no step of any handler removes an entry
\* or changes the role, action or detail of an entry already written, and the
\* length of the log never decreases.
C15_AuditAppendOnly ==
  [][ /\ Len(audit') >= Len(audit)
      /\ SubSeq(audit', 1, Len(audit)) = audit ]_vars

\* C15: a login and then a check-in are in the log, in that order, and a later
\* scan of the ticket has been refused
C15_Witness ==
  /\ Len(audit) = 2
  /\ audit[1].action = "login" /\ audit[2].action = "checkin"
  /\ resp.op = "checkin" /\ resp.status = 409

\* the last step appended exactly one audit entry, of this role and action, for
\* the ticket of the response
LoggedOnce(role, action) ==
  /\ Len(audit') = Len(audit) + 1
  /\ SubSeq(audit', 1, Len(audit)) = audit
  /\ audit'[Len(audit')].role = role
  /\ audit'[Len(audit')].action = action
  /\ audit'[Len(audit')].id = resp'.id

\* C16: with the audit table healthy, each successful check-in appends exactly
\* one (Scanner, checkin) entry, each successful ticket edit exactly one (Admin,
\* edit_ticket) entry, each successful ticket delete exactly one (Admin,
\* delete_ticket) entry, and a request answered 404 or 409 appends none.
C16_ActionsLoggedOnce ==
  [][ (env' = env /\ env.audit_ok) =>
        /\ (resp'.op = "checkin" /\ resp'.status = 200) => LoggedOnce("Scanner", "checkin")
        /\ (resp'.op = "edit" /\ resp'.status = 200) => LoggedOnce("Admin", "edit_ticket")
        /\ (resp'.op = "delete" /\ resp'.status = 204) =>
             LoggedOnce("Admin", "delete_ticket")
        /\ resp'.status \in {404, 409} => audit' = audit ]_vars

\* C16: a ticket was checked in, which is the one entry of the log, and the
\* second scan of it was refused
C16_Witness ==
  /\ resp.op = "checkin" /\ resp.status = 409
  /\ env.audit_ok
  /\ audit = <<AuditEntry("Scanner", "checkin", resp.id, <<>>)>>

\* the keys a settings payload names
Keys(payload) == {payload[i].k : i \in DOMAIN payload}

\* C17: only the keys of the default table are ever persisted: a settings
\* update that names an unknown key is answered normally, stores nothing for
\* that key, and leaves the key set of the effective configuration the default
\* key set and the value of every key it does not name unchanged.
C17_OnlyWhitelistedKeys ==
  [][ \A n \in DOMAIN SettingsPayloads :
        UpdateSettings(SettingsPayloads[n]) =>
          /\ resp'.status = 200
          /\ DOMAIN settings' \subseteq DOMAIN SETTING_DEFAULTS
          /\ DOMAIN Config' = DOMAIN SETTING_DEFAULTS
          /\ \A k \in DOMAIN SETTING_DEFAULTS \ Keys(SettingsPayloads[n]) :
               Config'[k] = Config[k] ]_vars

\* C17: an update naming the unknown key seats beside contact_name was served:
\* contact_name is stored, seats is not
C17_Witness ==
  /\ resp.op = "settings" /\ resp.status = 200
  /\ "contact_name" \in DOMAIN settings
  /\ "seats" \notin DOMAIN settings
  /\ "seats" \in Keys(SettingsPayloads[6])

\* C18: settings round-trip: after update({k: v}) of a whitelisted key k the
\* effective configuration holds the string form of v for k, whether or not an
\* override for k existed before, and every key not in the update keeps its
\* previous effective value.
C18_SettingsRoundTrip ==
  [][ \A n \in DOMAIN SettingsPayloads :
        UpdateSettings(SettingsPayloads[n]) =>
          /\ \A i \in DOMAIN SettingsPayloads[n] :
               SettingsPayloads[n][i].k \in DOMAIN SETTING_DEFAULTS =>
                 Config'[SettingsPayloads[n][i].k] = PyStr(SettingsPayloads[n][i].v)
          /\ \A k \in DOMAIN Config \ Keys(SettingsPayloads[n]) :
               Config'[k] = Config[k] ]_vars

\* C18: the number 2 was stored for total_capacity and later replaced by "3";
\* the boolean and the null are held in their string forms
C18_Witness ==
  /\ Config.total_capacity = "3"
  /\ \E n \in DOMAIN audit : audit[n].changes[1] = "total_capacity='2'"
  /\ Config.contact_name = "True"
  /\ Config.standard_limit = "None"

\* C19: a settings update appends exactly one update_settings entry when the
\* effective value of at least one key changed, and none when no effective
\* value changed (a key set to the value it has by default, unknown keys only).
C19_LoggedIffChanged ==
  [][ \A n \in DOMAIN SettingsPayloads :
        UpdateSettings(SettingsPayloads[n]) =>
          IF Config' # Config
          THEN /\ Len(audit') = Len(audit) + 1
               /\ SubSeq(audit', 1, Len(audit)) = audit
               /\ audit'[Len(audit')].action = "update_settings"
          ELSE audit' = audit ]_vars

\* C20: in every reachable state, for every stored ticket, checked_in_at is
\* non-null if and only if checked_in is true.
C20_CheckedInAtIffCheckedIn ==
  \A id \in DOMAIN tickets : (tickets[id].checked_in_at # None) <=> tickets[id].checked_in

\* C20: of two stored tickets one is checked in, with its time, and was edited
\* afterwards; the other is not checked in and has no time
C20_Witness ==
  /\ \E id \in DOMAIN tickets :
       /\ tickets[id].checked_in /\ tickets[id].checked_in_at = Some(clock)
       /\ resp.op = "edit" /\ resp.status = 200 /\ resp.id = id
  /\ \E id \in DOMAIN tickets :
       ~tickets[id].checked_in /\ tickets[id].checked_in_at = None

\* C21: payment_status is derived, never client-set: in every reachable state
\* every stored ticket's payment_status is pending or receipt_uploaded, and it
\* is receipt_uploaded exactly when the ticket holds receipt data.
C21_PaymentStatusDerived ==
  \A id \in DOMAIN tickets :
    /\ tickets[id].payment_status \in {"pending", "receipt_uploaded"}
    /\ tickets[id].payment_status = "receipt_uploaded" <=>
         (tickets[id].receipt_data # None /\ tickets[id].receipt_data[1] # "")

\* C22: for a well-formed registration request, whatever values the admin has
\* stored through settings update (empty or non-numeric total_capacity,
\* early_bird_limit or standard_limit included), register ends in the new
\* ticket or in a capacity rejection, never in another failure.
C22_RegisterAcceptsOrRejects ==
  [][ AnsweredValid => resp'.status \in {201, 409} ]_vars

\* the stored tickets of date d, and those of type ty among them
OfDate(d) == {i \in DOMAIN tickets : tickets[i].show_date = d}
OfTypeAndDate(ty, d) == {i \in OfDate(d) : tickets[i].ticket_type = ty}

\* the sum of quantity over the rows ids, taken quantity by quantity from q down
RECURSIVE QuantityTimesRows(_, _)
QuantityTimesRows(ids, q) ==
  IF q = 0 THEN 0
  ELSE q * Cardinality({i \in ids : tickets[i].quantity = q})
       + QuantityTimesRows(ids, q - 1)

\* the sold counts are sums of quantity, 0 where no ticket matches
SoldIsSum ==
  \A d \in Dates :
    /\ TotalSold(tickets, d) = QuantityTimesRows(OfDate(d), MaxQuantity)
    /\ OfDate(d) = {} => TotalSold(tickets, d) = 0
    /\ \A ty \in TicketTypes :
         /\ TypeSold(tickets, ty, d) = QuantityTimesRows(OfTypeAndDate(ty, d), MaxQuantity)
         /\ OfTypeAndDate(ty, d) = {} => TypeSold(tickets, ty, d) = 0

\* C23: soldByType(type, date) is the sum of quantity, not the number of rows,
\* over the stored tickets of that type and date, soldTotal(date) the sum over
\* the tickets of that date, both 0 when no ticket matches; the handler that
\* computes and reports them changes no state.
C23_SoldIsSumOfQuantity ==
  [][ /\ SoldIsSum'
      /\ (Answered("availability") /\ resp'.status = 200) =>
          /\ UNCHANGED <<tickets, nextId, settings, audit, emails, clock>>
          /\ \A d \in DOMAIN resp'.result \cap Dates :
               /\ resp'.result[d].total_sold = QuantityTimesRows(OfDate(d), MaxQuantity)
               /\ resp'.result[d].early_bird_sold =
                    QuantityTimesRows(OfTypeAndDate("Early Bird", d), MaxQuantity) ]_vars

\* C23: the availability reports 4 sold on a date with two tickets of quantity
\* 2, and 0 on the date without tickets
C23_Witness ==
  /\ resp.op = "availability" /\ resp.status = 200
  /\ DOMAIN resp.result = Dates
  /\ resp.result["2026-04-19"].total_sold = 4
  /\ Cardinality(OfDate("2026-04-19")) = 2
  /\ resp.result["2026-04-26"].total_sold = 0

\* what get_availability answers in the current state
AvailabilityNow == AvailabilityOn(Config, tickets)

\* what get_availability answers in the state a step leads to
AvailabilityNext ==
  { AvailabilityOn(GetAllSettings(st), tk) : st \in {settings'}, tk \in {tickets'} }

\* an accepted registration of quantity q lowers total_remaining of its date by
\* q and leaves the other dates as they are (before, after: the availability
\* answers around the step)
AcceptLowersRemaining(before, after) ==
  (AnsweredValid /\ resp'.status = 201) =>
    /\ after.status = 200
    /\ DOMAIN after.result = DOMAIN before.result
    /\ \A d \in DOMAIN before.result :
         after.result[d].total_remaining =
           before.result[d].total_remaining
             - (IF d = PyStrip(req'.show_date) THEN req'.quantity ELSE 0)

\* the registration request just answered asked for more than remains on its
\* date and was rejected with that remaining count
ExcessRejected(before) ==
  (/\ PyStrip(req'.show_date) \in DOMAIN before.result
   /\ req'.quantity > before.result[PyStrip(req'.show_date)].total_remaining) =>
    /\ resp' = Response("register", 409, "total",
                        before.result[PyStrip(req'.show_date)].total_remaining, 0, None)
    /\ tickets' = tickets

\* the statement of C24 for one step, the following request being any request
RemainingStepAny(before, after) ==
  before.status = 200 =>
    /\ AcceptLowersRemaining(before, after)
    /\ Answered("register") => ExcessRejected(before)

\* the statement of C24 for one step, the following request being well-formed
RemainingStepValid(before, after) ==
  before.status = 200 =>
    /\ AcceptLowersRemaining(before, after)
    /\ AnsweredValid => ExcessRejected(before)
    /\ Answered("availability") => resp' = before

\* C24 as stated: with total remaining r on a date, an accepted registration of
\* quantity q makes availability's total_remaining for that date r - q, other
\* dates unchanged, and any following request on that date whose quantity
\* exceeds r - q is rejected with a capacity rejection reporting r - q.
C24_RemainingAfterAccept ==
  [][ Answered("register") =>
        \A before \in {AvailabilityNow} : \A after \in AvailabilityNext :
          RemainingStepAny(before, after) ]_vars

\* C24: with total remaining r on a date, an accepted registration of quantity q
\* makes availability's total_remaining for that date r - q, other dates
\* unchanged, and a following request on that date whose quantity is between 1
\* and 10 and exceeds r - q is rejected with a capacity rejection reporting
\* r - q; the availability handler answers these very numbers.
C24_RemainingAfterAcceptValid ==
  [][ (Answered("register") \/ Answered("availability")) =>
        \A before \in {AvailabilityNow} : \A after \in AvailabilityNext :
          RemainingStepValid(before, after) ]_vars

\* C24: capacity 3, a registration of 2 was accepted, and the next request of 2
\* for the date was rejected with 1 remaining
C24_Witness ==
  /\ resp = Response("register", 409, "total", 1, 0, None)
  /\ req.quantity = 2
  /\ AvailabilityNow.status = 200
  /\ req.show_date \in DOMAIN AvailabilityNow.result
  /\ AvailabilityNow.result[req.show_date].total_remaining = 1
  /\ Cardinality(OfDate(req.show_date)) = 1

\* C25: a check-in of an identifier that matches no stored ticket is answered
\* 404 and changes nothing: no ticket is modified or created and no audit
\* entry is appended.
C25_UnknownCheckInChangesNothing ==
  [][ (Answered("checkin") /\ resp'.id \notin DOMAIN tickets) =>
        /\ resp'.status = 404
        /\ UNCHANGED <<tickets, nextId, audit, settings, emails, clock>> ]_vars

\* C25: an identifier that is not stored was scanned while another ticket is
\* stored and the log has rows
C25_Witness ==
  /\ resp.op = "checkin"
  /\ resp.status = 404
  /\ resp.id \notin DOMAIN tickets
  /\ DOMAIN tickets # {}
  /\ Len(audit) > 0

\* C26: in every reachable state every stored ticket has an integer quantity
\* between 1 and 10 inclusive, whatever registrations and admin edits came
\* before.
C26_QuantityInRange ==
  \A id \in DOMAIN tickets :
    /\ tickets[id].quantity \in Int
    /\ tickets[id].quantity >= 1
    /\ tickets[id].quantity <= 10

\* C26: a ticket registered and edited to quantity 2 is stored, and an edit to a
\* quantity out of range has just been refused
C26_Witness ==
  /\ resp.op = "edit"
  /\ resp.status = 422
  /\ resp.id \in DOMAIN tickets
  /\ tickets[resp.id].quantity = 2
  /\ \E n \in DOMAIN audit : audit[n].action = "edit_ticket" /\ audit[n].id = resp.id

\* the entry of the type list that register_ticket finds for ty
TdefOf(cfg, ty) == FindInTypeDefs(IterTypeDefs(JsonLoads(cfg.ticket_types_json)), ty)

\* the limit of a found entry, when it has one that reads as a number
LimitOfTdef(tdef) ==
  IF /\ tdef.exc = "none"
     /\ Truthy(tdef.val)
     /\ Truthy(DictGet(tdef.val, "limit"))
     /\ Readable(DictGet(tdef.val, "limit"))
  THEN Some(PyInt(DictGet(tdef.val, "limit")).val)
  ELSE None

\* the limit of Early Bird or Standard in legacy mode, read from text
LimitOfText(text) ==
  IF PyIntOfStr(text).exc = "none" THEN Some(PyIntOfStr(text).val) ELSE None

\* the limit the settings cfg give the type ty (None: ty is not a limited type)
LimitOf(cfg, ty) ==
  IF cfg.ticket_types_json # "" THEN LimitOfTdef(TdefOf(cfg, ty))
  ELSE IF ty = "Early Bird"
  THEN LimitOfText(IF cfg.early_bird_limit # "" THEN cfg.early_bird_limit ELSE "30")
  ELSE IF ty = "Standard" /\ cfg.standard_limit # ""
  THEN LimitOfText(cfg.standard_limit)
  ELSE None

\* the limit of every ticket type under the settings cfg
Limits(cfg) == [ty \in TicketTypes |-> LimitOf(cfg, ty)]

\* the tickets tk are within the capacity on every date and within the limit of
\* every limited type on every date (capacity: the result of int(total_capacity))
WithinLimits(capacity, limits, tk) ==
  /\ capacity.exc = "none"
  /\ \A d \in Dates : TotalSold(tk, d) <= capacity.val
  /\ \A ty \in TicketTypes :
       limits[ty] # None => \A d \in Dates : TypeSold(tk, ty, d) <= limits[ty][1]

\* C27: under settings that do not change, register, delete and check-in
\* requests executed one at a time keep, for every date, the sum of quantities
\* at most total_capacity and, for every limited type, the sum of that type at
\* most its limit.
C27_FixedSettingsKeepLimits ==
  [][ ( /\ settings' = settings
        /\ Answered("register") \/ Answered("delete") \/ Answered("checkin") ) =>
        \A capacity \in {Capacity} : \A limits \in {Limits(Config)} :
          \A tk \in {tickets'} :
            WithinLimits(capacity, limits, tickets) => WithinLimits(capacity, limits, tk) ]_vars

\* C27: legacy limits, capacity 3 with 3 sold on a date of which 2 are Early
\* Bird (its limit), one of the tickets is checked in, and one more is refused
C27_Witness ==
  /\ WithinLimits(Capacity, Limits(Config), tickets)
  /\ LimitOf(Config, "Early Bird") = Some(2)
  /\ \E d \in Dates :
       /\ TotalSold(tickets, d) = 3
       /\ TypeSold(tickets, "Early Bird", d) = 2
  /\ \E id \in DOMAIN tickets : tickets[id].checked_in
  /\ resp.op = "register" /\ resp.status = 409

\* the fields of a ticket that update_ticket has no assignment for
Untouched(row) ==
  <<row.checked_in, row.checked_in_at, row.created_at, row.receipt_data>>

\* between the rows old and new, a field the update does not supply is unchanged
OnlySupplied(old, new, update) ==
  /\ update.ticket_type = None => new.ticket_type = old.ticket_type
  /\ update.show_date = None => new.show_date = old.show_date
  /\ update.quantity = None => new.quantity = old.quantity
  /\ update.payment_status = None => new.payment_status = old.payment_status

\* the step from tk to tk2 keeps the identifiers and every row but id as they are
OthersKept(tk, tk2, id) ==
  /\ DOMAIN tk2 = DOMAIN tk
  /\ \A i \in DOMAIN tk \ {id} : tk2[i] = tk[i]

\* C28: an edit changes only the fields supplied in the request; it never
\* changes the identifier, checked_in, checked_in_at, created_at or the receipt
\* of the ticket, never changes another ticket, and on an unknown identifier is
\* answered 404 (a well-formed request) with no change and no audit entry.
C28_EditChangesOnlySupplied ==
  [][ \A id \in TicketIds, u \in DeskUpdates :
        UpdateTicket(id, u) =>
          /\ OthersKept(tickets, tickets', id)
          /\ UNCHANGED <<nextId, settings, emails, clock>>
          /\ id \in DOMAIN tickets =>
               /\ OnlySupplied(tickets[id], tickets'[id], u)
               /\ Untouched(tickets'[id]) = Untouched(tickets[id])
          /\ id \notin DOMAIN tickets =>
               /\ UpdateValid(u) => resp' = Plain("edit", 404, id)
               /\ resp'.status \in {404, 422}
               /\ UNCHANGED <<tickets, audit>> ]_vars

\* C28: a checked-in ticket with a receipt was edited to payment status paid
\* while another ticket is stored; it is still checked in and has its receipt
C28_Witness ==
  /\ resp.op = "edit" /\ resp.status = 200
  /\ resp.id \in DOMAIN tickets
  /\ tickets[resp.id].payment_status = "paid"
  /\ tickets[resp.id].checked_in
  /\ tickets[resp.id].checked_in_at # None
  /\ tickets[resp.id].receipt_data # None
  /\ Cardinality(DOMAIN tickets) = 2

\* from tk to tk2 exactly the row id went: the other rows are as they were, and
\* the sold counts of its date, and of its type and date, dropped by its
\* quantity, the other counts being as they were
ExactlyRemoved(tk, tk2, id) ==
  /\ DOMAIN tk2 = DOMAIN tk \ {id}
  /\ \A i \in DOMAIN tk2 : tk2[i] = tk[i]
  /\ \A d \in Dates :
       TotalSold(tk2, d) =
         TotalSold(tk, d) - (IF d = tk[id].show_date THEN tk[id].quantity ELSE 0)
  /\ \A ty \in TicketTypes, d \in Dates :
       TypeSold(tk2, ty, d) =
         TypeSold(tk, ty, d)
           - (IF d = tk[id].show_date /\ ty = tk[id].ticket_type
              THEN tk[id].quantity ELSE 0)

\* C29: deleting an existing ticket removes exactly that ticket, so the sold
\* count of its date and of its type and date each drop by its quantity and all
\* other tickets are unchanged; deleting an unknown identifier is answered 404,
\* removes nothing and appends no audit entry.
C29_DeleteRemovesExactlyOne ==
  [][ \A id \in TicketIds :
        DeleteTicket(id) =>
          IF id \in DOMAIN tickets
          THEN /\ resp' = Plain("delete", 204, id)
               /\ \A tk \in {tickets'} : ExactlyRemoved(tickets, tk, id)
          ELSE /\ resp' = Plain("delete", 404, id)
               /\ UNCHANGED <<tickets, audit>> ]_vars

\* C29: a ticket was deleted, the other ticket, edited to quantity 2, is still
\* stored and counted, and the deletion is in the log
C29_Witness ==
  /\ resp = Plain("delete", 204, resp.id)
  /\ resp.id \notin DOMAIN tickets
  /\ Cardinality(DOMAIN tickets) = 1
  /\ TotalSold(tickets, "2026-04-19") = 2
  /\ audit # <<>>
  /\ audit[Len(audit)].action = "delete_ticket"

====
